---- MODULE Spec2Model ----
(***************************************************************************)
(* XaviersSimACTII, Node.js engine (src/nodeSrc): the story simulation     *)
(* driven by main.js / simulation.js, with TweetGenerator and              *)
(* DigestGenerator persisting the story in JSON files.                     *)
(*                                                                         *)
(* Ages are kept in hundredths of a year (22.08 is 2208), which is the     *)
(* precision the code rounds to with toFixed(2).                           *)
(* A story file is modelled by the fields the code reads and writes; the   *)
(* posts of story.tweets are modelled by their number, since the engine    *)
(* reads only the length of the array and passes post texts through. A     *)
(* backup is modelled by the number of posts of the story it is a copy of. *)
(*                                                                         *)
(* The technology epochs are those of the run() that keeps the posts in    *)
(* ongoing_tweets.json (TechEvolutionGenerator over GithubOperations).     *)
(***************************************************************************)
EXTENDS Integers, Naturals, Sequences, FiniteSets, TLC

VARIABLES
    files,      \* path -> content of the two XaviersSim.json files
    sentTotal,  \* number of entries of data/sent_tweets.json (written by the posting client)
    backups,    \* contents of data/backups/XaviersSim_<timestamp>.json, in creation order
    initData,   \* which INITIAL_DATA the deployed utils/init_data.js holds
    pc,         \* process -> where the process is
    loc,        \* process -> locals of the running tick
    techFile,       \* year of the epoch in tech_evolution.json, NoTech when there is no file
    ongoingTweets,  \* number of posts in ongoing_tweets.json
    latestTweetAge, \* age of the last of them, in posts (1 / ongoingTweetsPerYear of a year)
    runPc,          \* where XavierSimulation.run is
    runCount,       \* tweetCount of the current run
    call,           \* the last call of a function of the program: name, arguments, results
    sim             \* one XavierSimulation object: config.isRunning and its start() calls

storyVars == <<files, sentTotal, backups, initData, pc, loc>>
techVars == <<techFile, ongoingTweets, latestTweetAge, runPc, runCount>>
simVars == <<sim>>
vars == <<files, sentTotal, backups, initData, pc, loc,
          techFile, ongoingTweets, latestTweetAge, runPc, runCount, call, sim>>

----------------------------------------------------------------------------
\* Configuration

startAge == 22
endAge == 23
tweetsPerYear == 48
tweetsPerScene == 4
scenesPerBatch == 1
maxTweetsPerDay == 4800
digestInterval == 4
localSimulationTweets == 12

\* Bounds of the model; endAge comes from data/Introduction.json, maxFiles is 5
\* in TweetGenerator and DataManager keeps 10 backups (maxBackups): they are
\* scaled down so that the end of the story and the cleanup of backups are
\* reached within the bounds
maxFiles == 2
maxBackups == 3
NumProcs == 2
MaxTweets == 16
MaxDigests == 3
MaxPosts == 100
MaxIntervals == 125

Procs == 1..NumProcs

\* Paths: TweetGenerator and initializeDataStructure use data/XaviersSim.json,
\* DigestGenerator uses data/<dev|prod>/XaviersSim.json.
TweetMainFile == "main"
DigestMainFile == "env"
Paths == {TweetMainFile, DigestMainFile}

----------------------------------------------------------------------------
\* Pacing

\* Number(x.toFixed(2)) of startAge + t / tweetsPerYear, in hundredths.
\* The halves (t = 6 mod 12) are exact binary fractions and round up.
Round2(t) == startAge * 100 + ((200 * t + tweetsPerYear) \div (2 * tweetsPerYear))

Min(a, b) == IF a <= b THEN a ELSE b

\* TweetGenerator._calculateAge when storyConfig.setting.endAge is end
CalculateAgeTo(totalTweets, end) ==
    IF totalTweets = 0 THEN startAge * 100
    ELSE Min(Round2(totalTweets), end * 100)

\* TweetGenerator._calculateAge
CalculateAge(totalTweets) == CalculateAgeTo(totalTweets, endAge)

\* DigestGenerator._calculateAge: no cap at endAge
DigestCalculateAge(totalTweets) == Round2(totalTweets)

\* DigestGenerator._getPhase and TweetGenerator._calculatePhase: the brackets
GetPhase(age) ==
    IF age < 3200 THEN "early_career"
    ELSE IF age < 4200 THEN "growth_phase"
    ELSE IF age < 5200 THEN "peak_phase"
    ELSE IF age < 6200 THEN "mature_phase"
    ELSE "wisdom_phase"

\* TweetGenerator._getCurrentPhase when storyConfig.setting.endAge is end
GetCurrentPhaseTo(age, end) ==
    LET safeAge == Min(age, end * 100) IN
    IF safeAge < 3200 THEN "early_career"
    ELSE IF safeAge < 4200 THEN "growth_phase"
    ELSE IF safeAge < 5200 THEN "peak_phase"
    ELSE IF safeAge < 6200 THEN "mature_phase"
    ELSE "wisdom_phase"

\* TweetGenerator._getCurrentPhase
GetCurrentPhase(age) == GetCurrentPhaseTo(age, endAge)

\* The end of the last of the lifePhases of the scene generator
lastPhaseEnd == 72

\* The scene generator's _getCurrentPhase: the first of lifePhases whose
\* ageRange [from, to) holds the age, named as the brackets above; find returns
\* undefined ("none") when no range holds it
LifePhase(age) ==
    IF age >= 2200 /\ age < 3200 THEN "early_career"
    ELSE IF age >= 3200 /\ age < 4200 THEN "growth_phase"
    ELSE IF age >= 4200 /\ age < 5200 THEN "peak_phase"
    ELSE IF age >= 5200 /\ age < 6200 THEN "mature_phase"
    ELSE IF age >= 6200 /\ age < lastPhaseEnd * 100 THEN "wisdom_phase"
    ELSE "none"

----------------------------------------------------------------------------
\* Story file contents

NoAge == 0 - 1

\* The digest INITIAL_DATA and _initializeSummary start with: content and timestamp only
SeedDigest == [age |-> NoAge, tweetCount |-> NoAge]

Blank(k) ==
    [kind |-> k, hasAge |-> FALSE, currentAge |-> NoAge, currentPhase |-> "none",
     tweets |-> 0, digests |-> <<>>, hasStats |-> FALSE, totalTweets |-> 0,
     digestCount |-> 0, personal |-> "none"]

Absent == Blank("absent")
Corrupt == Blank("corrupt")

\* INITIAL_DATA; personal is "basic" for utils/init_data.js (no romantic, family_life,
\* lifestyle sections) and "full" for the variant that has them.
InitialData(personal) ==
    [kind |-> "ok", hasAge |-> TRUE, currentAge |-> startAge * 100,
     currentPhase |-> "early_career", tweets |-> 0, digests |-> <<SeedDigest>>,
     hasStats |-> TRUE, totalTweets |-> 0, digestCount |-> 0, personal |-> personal]

\* The object TweetGenerator._initializeSummary writes: metadata has no currentAge,
\* and there are no stats and no personal sections.
SummaryInitialData ==
    [kind |-> "ok", hasAge |-> FALSE, currentAge |-> NoAge,
     currentPhase |-> "early_career", tweets |-> 0, digests |-> <<SeedDigest>>,
     hasStats |-> FALSE, totalTweets |-> 0, digestCount |-> 0, personal |-> "none"]

Readable(f) == f.kind = "ok"

----------------------------------------------------------------------------
\* Processes: every `npm run start:prod` the scheduler launches is one process
\* running main.js (initialize, then runOnce or the continuous loop).

CompletionSizes == {0, tweetsPerScene, localSimulationTweets}
MaxCompletion == localSimulationTweets

\* fs.writeFile overwrites in place: it completes, fails leaving a truncated or
\* partial file, or is refused leaving the file as it was.
WriteOutcomes == {"ok", "partial", "refused"}

Written(old, new, outcome) ==
    IF outcome = "ok" THEN new ELSE IF outcome = "partial" THEN Corrupt ELSE old

FreshLocals(continuous) ==
    [continuous |-> continuous, isRunning |-> FALSE, sumTotal |-> 0,
     gen |-> 0, snap |-> Absent, saved |-> 0, recent |-> 0,
     outcome |-> "none", exitCode |-> NoAge]

\* A loop that a failing tick ends: the catch clears the running flag
StopOnThrow(p, l, where) ==
    /\ loc' = [loc EXCEPT ![p] =
                 [FreshLocals(l.continuous) EXCEPT
                    !.outcome = where,
                    !.exitCode = IF l.continuous THEN l.exitCode ELSE 1]]
    /\ pc' = [pc EXCEPT ![p] = IF l.continuous THEN "wait" ELSE "idle"]

\* runOnce rejects: SimulationRunner.run catches it and the process exits 1;
\* the continuous loop catches it, waits and goes on.
Throw(p, l, where) ==
    /\ loc' = [loc EXCEPT ![p] =
                 [FreshLocals(l.continuous) EXCEPT
                    !.isRunning = l.isRunning,
                    !.outcome = where,
                    !.exitCode = IF l.continuous THEN l.exitCode ELSE 1]]
    /\ pc' = [pc EXCEPT ![p] = IF l.continuous THEN "wait" ELSE "idle"]

\* runOnce resolves. In single-run mode run() reads result.tweets.length, which
\* throws for the null and undefined results, and the process exits 1.
Return(p, l, how) ==
    /\ loc' = [loc EXCEPT ![p] =
                 [FreshLocals(l.continuous) EXCEPT
                    !.isRunning = l.isRunning,
                    !.outcome = how,
                    !.exitCode = IF l.continuous THEN l.exitCode
                                 ELSE IF how = "generated" THEN 0 ELSE 1]]
    /\ pc' = [pc EXCEPT ![p] = IF l.continuous THEN "wait" ELSE "idle"]

\* prod_scheduler.runCommand: launch a process, whatever the earlier ones are doing
RunCommand(p, modes) ==
    /\ pc[p] = "idle"
    /\ \E continuous \in modes :
         loc' = [loc EXCEPT ![p] = FreshLocals(continuous)]
    /\ pc' = [pc EXCEPT ![p] = "unlink"]
    /\ UNCHANGED <<files, sentTotal, backups, initData>>

\* initializeDataStructure, first part: unlink XaviersSim.json
InitUnlink(p) ==
    /\ pc[p] = "unlink"
    /\ files' = [files EXCEPT ![TweetMainFile] = Absent]
    /\ pc' = [pc EXCEPT ![p] = "initwrite"]
    /\ UNCHANGED <<sentTotal, backups, initData, loc>>

\* initializeDataStructure, second part: write INITIAL_DATA; a failure makes
\* initialize() return false and the process exit 1. Then run() starts.
InitWrite(p, outcomes) ==
    /\ pc[p] = "initwrite"
    /\ \E o \in outcomes :
         /\ files' = [files EXCEPT ![TweetMainFile] = Written(@, InitialData(initData), o)]
         /\ IF o = "ok"
            THEN /\ pc' = [pc EXCEPT ![p] = "summary"]
                 /\ loc' = [loc EXCEPT ![p].isRunning = loc[p].continuous]
            ELSE /\ pc' = [pc EXCEPT ![p] = "idle"]
                 /\ loc' = [loc EXCEPT ![p].exitCode = 1]
    /\ UNCHANGED <<sentTotal, backups, initData>>

\* XavierSimulation.runOnce up to the generation: getCurrentSummary, the
\* completion check and the daily limit checks
GetCurrentSummary(p) ==
    LET f == files[TweetMainFile]
        l == loc[p]
    IN
    /\ pc[p] = "summary"
    /\ UNCHANGED <<sentTotal, backups, initData>>
    /\ IF f.kind = "absent"
       THEN \* _initializeSummary, then currentAge.toFixed on the object without currentAge
            /\ \E wrote \in BOOLEAN :
                 files' = [files EXCEPT ![TweetMainFile] =
                             IF wrote THEN SummaryInitialData ELSE @]
            /\ Throw(p, l, "threw_load")
       ELSE IF f.kind = "corrupt" \/ ~f.hasAge
       THEN /\ UNCHANGED files
            /\ Throw(p, l, "threw_load")
       ELSE IF f.currentAge >= endAge * 100
       THEN /\ UNCHANGED files
            /\ Return(p, [l EXCEPT !.isRunning = FALSE], "completed")
       ELSE IF maxTweetsPerDay - (f.tweets % maxTweetsPerDay) < tweetsPerScene * scenesPerBatch
       THEN /\ UNCHANGED files
            /\ Return(p, l, "skipped")
       ELSE /\ f.tweets + MaxCompletion <= MaxTweets
            /\ Len(files[DigestMainFile].digests) < MaxDigests
            /\ UNCHANGED files
            /\ loc' = [loc EXCEPT ![p] = [l EXCEPT !.sumTotal = f.tweets,
                                                  !.outcome = "running"]]
            /\ pc' = [pc EXCEPT ![p] = "prompt"]

\* generateTweetScene: _buildSystemPrompt and _prepareContext read the story file
BuildPrompt(p) ==
    LET f == files[TweetMainFile] IN
    /\ pc[p] = "prompt"
    /\ UNCHANGED <<files, sentTotal, backups, initData>>
    /\ IF ~Readable(f) \/ f.personal # "full"
       THEN Throw(p, loc[p], "threw_generate")
       ELSE /\ pc' = [pc EXCEPT ![p] = "ai"]
            /\ UNCHANGED loc

\* AICompletion.getCompletion: the parsed answer of the generator, or the local
\* simulation when the call fails
GetCompletion(p, sizes) ==
    /\ pc[p] = "ai"
    /\ \E n \in sizes :
         loc' = [loc EXCEPT ![p].gen = n]
    /\ pc' = [pc EXCEPT ![p] = "save_read"]
    /\ UNCHANGED <<files, sentTotal, backups, initData>>

\* _saveTweets, the content it writes: the posts are appended to story.tweets,
\* stats.totalTweets and metadata.currentAge come from the sent-posts count
NewStoryData(storyData, n, sentTotalTweets) ==
    LET newTotalTweets == sentTotalTweets + n
        newAge == CalculateAge(newTotalTweets)
        safeAge == Min(newAge, endAge * 100)
    IN [storyData EXCEPT !.tweets = @ + n,
                         !.totalTweets = newTotalTweets,
                         !.currentAge = safeAge,
                         !.hasAge = TRUE,
                         !.currentPhase = GetCurrentPhase(safeAge)]

\* A save without the test of the end age
SaveAtAnyAge(p) ==
    LET f == files[TweetMainFile]
        l == loc[p]
    IN
    /\ pc[p] = "save_read"
    /\ UNCHANGED <<files, sentTotal, backups, initData>>
    /\ IF ~Readable(f)
       THEN Throw(p, l, "threw_generate")
       ELSE IF ~f.hasStats \/ f.personal # "full"
       THEN Throw(p, l, "threw_generate")
       ELSE /\ loc' = [loc EXCEPT ![p] = [l EXCEPT !.snap = NewStoryData(f, l.gen, sentTotal)]]
            /\ pc' = [pc EXCEPT ![p] = "save_write"]

\* _saveTweets, first part: read the story file and the sent-posts count. At the end
\* age nothing is saved and the scene is empty; else the object read is updated in
\* memory (stats and the personal sections are dereferenced there).
SaveTweetsRead(p) ==
    LET f == files[TweetMainFile]
        l == loc[p]
    IN
    /\ pc[p] = "save_read"
    /\ UNCHANGED <<files, sentTotal, backups, initData>>
    /\ IF ~Readable(f)
       THEN Throw(p, l, "threw_generate")
       ELSE IF CalculateAge(sentTotal) >= endAge * 100
       THEN /\ loc' = [loc EXCEPT ![p] = [l EXCEPT !.saved = 0]]
            /\ pc' = [pc EXCEPT ![p] = "digest"]
       ELSE IF ~f.hasStats \/ f.personal # "full"
       THEN Throw(p, l, "threw_generate")
       ELSE /\ loc' = [loc EXCEPT ![p] = [l EXCEPT !.snap = NewStoryData(f, l.gen, sentTotal)]]
            /\ pc' = [pc EXCEPT ![p] = "save_write"]

\* _saveTweets, second part: fs.writeFile of the updated story
SaveTweetsWrite(p, outcomes) ==
    LET l == loc[p] IN
    /\ pc[p] = "save_write"
    /\ UNCHANGED <<sentTotal, backups, initData>>
    /\ \E o \in outcomes :
         /\ files' = [files EXCEPT ![TweetMainFile] =
                        Written(@, l.snap, o)]
         /\ IF o = "ok"
            THEN /\ pc' = [pc EXCEPT ![p] = "backup"]
                 /\ loc' = [loc EXCEPT ![p].snap = Absent]
            ELSE Throw(p, [l EXCEPT !.snap = Absent], "threw_generate")

\* list without its i-th entry
RemoveAt(list, i) == SubSeq(list, 1, i - 1) \o SubSeq(list, i + 1, Len(list))

\* The names that are left when a directory listing is cut down to n names, the
\* listing being in any order
RECURSIVE KeepAny(_, _)
KeepAny(list, n) ==
    IF Len(list) <= n THEN {list}
    ELSE UNION {KeepAny(RemoveAt(list, i), n) : i \in 1..Len(list)}

\* A cleanup that unlinks nothing
LeaveBackups(list) == {list}

\* _cleanupOldBackups: the names are sorted by a time parsed from the name with its
\* dashes turned into colons, which is no valid date, so the comparator orders
\* nothing and the directory order decides which maxFiles backups are kept.
CleanupOldBackups(list) == KeepAny(list, maxFiles)

\* fs.copyFile of the story file, whatever it holds
BackupOf(f) == IF Readable(f) THEN f.tweets ELSE NoAge

\* _saveTweets, third part: _createBackup copies the file just written, then the
\* old backups are cleaned; a failure is logged and ignored. The scene is returned.
CreateBackup(p) ==
    LET f == files[TweetMainFile]
        l == loc[p]
    IN
    /\ pc[p] = "backup"
    /\ UNCHANGED <<files, sentTotal, initData>>
    /\ \/ /\ f.kind # "absent"
          /\ backups' \in CleanupOldBackups(Append(backups, BackupOf(f)))
       \/ UNCHANGED backups
    /\ loc' = [loc EXCEPT ![p].saved = l.gen]
    /\ pc' = [pc EXCEPT ![p] = "digest"]

\* checkAndGenerateDigest up to _saveDigest: the recent posts are read from the
\* digest generator's story file (none when it cannot be read) and a digest is
\* produced in every call: by the generator, with tweetCount the number of
\* posts read, or from the local template, with tweetCount digestInterval.
GenerateDigest(p) ==
    LET f == files[DigestMainFile]
        read == IF Readable(f) THEN Min(f.tweets, digestInterval) ELSE 0
    IN
    /\ pc[p] = "digest"
    /\ \E tweetCount \in {read, digestInterval} :
         loc' = [loc EXCEPT ![p].recent = tweetCount]
    /\ pc' = [pc EXCEPT ![p] = "digest_read"]
    /\ UNCHANGED <<files, sentTotal, backups, initData>>

\* A _saveDigest whose digest is dated one scene ahead of the story
DigestAhead(storyData, recent, totalTweets) ==
    LET calculatedAge == DigestCalculateAge(totalTweets + tweetsPerScene)
        digests == Append(storyData.digests, [age |-> calculatedAge, tweetCount |-> recent])
    IN [storyData EXCEPT !.digests = digests,
                         !.digestCount = Len(digests),
                         !.currentAge = calculatedAge,
                         !.hasAge = TRUE]

\* A _saveDigest that pushes its digest twice
PushDigestTwice(storyData, recent, totalTweets) ==
    LET calculatedAge == DigestCalculateAge(totalTweets)
        digest == [age |-> calculatedAge, tweetCount |-> recent]
        digests == Append(Append(storyData.digests, digest), digest)
    IN [storyData EXCEPT !.digests = digests,
                         !.digestCount = Len(digests),
                         !.currentAge = calculatedAge,
                         !.hasAge = TRUE]

\* _saveDigest, the content it writes; totalTweets is the story length runOnce
\* computed, summary.totalTweets + allTweets.length
NewDigestData(storyData, recent, totalTweets) ==
    LET calculatedAge == DigestCalculateAge(totalTweets)
        digests == Append(storyData.digests, [age |-> calculatedAge, tweetCount |-> recent])
    IN [storyData EXCEPT !.digests = digests,
                         !.digestCount = Len(digests),
                         !.currentAge = calculatedAge,
                         !.hasAge = TRUE]

\* _saveDigest, first part: read the story file; stats is dereferenced before the write
SaveDigestRead(p) ==
    LET f == files[DigestMainFile]
        l == loc[p]
    IN
    /\ pc[p] = "digest_read"
    /\ UNCHANGED <<files, sentTotal, backups, initData>>
    /\ IF ~Readable(f) \/ ~f.hasStats
       THEN Throw(p, l, "threw_digest")
       ELSE /\ Len(f.digests) < MaxDigests
            /\ loc' = [loc EXCEPT ![p].snap = NewDigestData(f, l.recent, l.sumTotal + l.saved)]
            /\ pc' = [pc EXCEPT ![p] = "digest_write"]

\* _saveDigest, second part: fs.writeFile; then runOnce returns the scene and the digest
SaveDigestWrite(p, outcomes) ==
    LET l == loc[p] IN
    /\ pc[p] = "digest_write"
    /\ UNCHANGED <<sentTotal, backups, initData>>
    /\ \E o \in outcomes :
         /\ files' = [files EXCEPT ![DigestMainFile] =
                        Written(@, l.snap, o)]
         /\ IF o = "ok"
            THEN Return(p, [l EXCEPT !.snap = Absent], "generated")
            ELSE Throw(p, [l EXCEPT !.snap = Absent], "threw_digest")

\* XavierSimulation.start: after the wait the loop runs again while isRunning,
\* else start() returns and the process ends
LoopNext(p) ==
    /\ pc[p] = "wait"
    /\ IF loc[p].isRunning
       THEN /\ pc' = [pc EXCEPT ![p] = "summary"]
            /\ UNCHANGED loc
       ELSE /\ pc' = [pc EXCEPT ![p] = "idle"]
            /\ loc' = [loc EXCEPT ![p].exitCode = 0]
    /\ UNCHANGED <<files, sentTotal, backups, initData>>

\* The posting client appends to sent_tweets.json
MaxSent == tweetsPerYear * (endAge - startAge)

\* the counts the model lets it reach: one scene before the end, and the end
SentCounts == {MaxSent - tweetsPerScene, MaxSent}

SendTweets ==
    /\ \E n \in SentCounts :
         /\ n > sentTotal
         /\ sentTotal' = n
    /\ UNCHANGED <<files, backups, initData, pc, loc>>

----------------------------------------------------------------------------
\* DataManager: a client saving the story through it, on the same story file
\* and backup directory as TweetGenerator

\* What the client saves: a story of no posts or of one scene
StoreData ==
    {[InitialData(initData) EXCEPT !.tweets = n, !.totalTweets = n,
                                   !.currentAge = CalculateAge(n)] :
       n \in {0, tweetsPerScene}}

\* JSON.stringify of a number of the story, an age in hundredths: the digits of
\* the whole part and those of the fraction that are needed
NumberToJson(age) ==
    [whole |-> age \div 100,
     fraction |-> IF age % 100 = 0 THEN <<>>
                  ELSE IF age % 10 = 0 THEN <<(age % 100) \div 10>>
                  ELSE <<(age % 100) \div 10, age % 10>>]

\* A parse that stops at the decimal point
ParseWhole(text) == text.whole * 100

\* JSON.parse of the text of a number
JsonToNumber(text) ==
    text.whole * 100
      + (IF Len(text.fraction) = 0 THEN 0
         ELSE IF Len(text.fraction) = 1 THEN text.fraction[1] * 10
         ELSE text.fraction[1] * 10 + text.fraction[2])

\* JSON.stringify(data, null, 2): the text of the story, its age as written
JsonStringify(data) ==
    IF data.kind = "ok" /\ data.hasAge
    THEN [data EXCEPT !.currentAge = NumberToJson(@)]
    ELSE data

\* JSON.parse of that text
JsonParse(text) ==
    IF text.kind = "ok" /\ text.hasAge
    THEN [text EXCEPT !.currentAge = JsonToNumber(@)]
    ELSE text

\* DataManager.saveData is called with data
SaveData(p) ==
    /\ pc[p] = "idle"
    /\ \E data \in StoreData :
         loc' = [loc EXCEPT ![p] = [FreshLocals(FALSE) EXCEPT !.snap = data,
                                                             !.outcome = "saving"]]
    /\ pc' = [pc EXCEPT ![p] = "dm_backup"]
    /\ UNCHANGED <<files, sentTotal, backups, initData>>

\* DataManager._createBackup: copy the story file, then, when the directory holds
\* more than maxBackups names, unlink the first of them in sorted order, which is
\* the oldest. A failure (no story file to copy) returns false and is ignored.
DataCreateBackup(p) ==
    LET f == files[TweetMainFile]
        copied == Append(backups, BackupOf(f))
    IN
    /\ pc[p] = "dm_backup"
    /\ backups' = IF f.kind = "absent" THEN backups
                  ELSE IF Len(copied) > maxBackups THEN Tail(copied)
                  ELSE copied
    /\ pc' = [pc EXCEPT ![p] = "dm_write"]
    /\ UNCHANGED <<files, sentTotal, initData, loc>>

\* DataManager.saveData, after the backup: fs.writeFile; it returns true, or
\* throws when the write fails
DataWrite(p, outcomes) ==
    LET l == loc[p] IN
    /\ pc[p] = "dm_write"
    /\ \E o \in outcomes :
         /\ files' = [files EXCEPT ![TweetMainFile] =
                        Written(@, JsonParse(JsonStringify(l.snap)), o)]
         /\ loc' = [loc EXCEPT ![p] =
                      [FreshLocals(FALSE) EXCEPT
                         !.snap = IF o = "ok" THEN l.snap ELSE Absent,
                         !.outcome = IF o = "ok" THEN "saved" ELSE "threw_save"]]
    /\ pc' = [pc EXCEPT ![p] = "idle"]
    /\ UNCHANGED <<sentTotal, backups, initData>>

\* DataManager.getData: readFile and JSON.parse; either may throw. The story file
\* of the model holds what its text parses to.
GetData(p) ==
    LET f == files[TweetMainFile] IN
    /\ pc[p] = "idle"
    /\ call' = [fn |-> "getData", arg |-> TweetMainFile,
                res |-> IF Readable(f) THEN [raised |-> FALSE, data |-> f]
                        ELSE [raised |-> TRUE, data |-> Absent]]
    /\ UNCHANGED storyVars

\* PathUtils.writeJsonFile(filePath, data): ensureDir, then writeFile of the text
WriteJsonFile(p, outcomes) ==
    /\ pc[p] = "idle"
    /\ \E data \in StoreData, o \in outcomes :
         /\ files' = [files EXCEPT ![TweetMainFile] =
                        Written(@, JsonParse(JsonStringify(data)), o)]
         /\ loc' = [loc EXCEPT ![p] =
                      [FreshLocals(FALSE) EXCEPT
                         !.snap = IF o = "ok" THEN data ELSE Absent,
                         !.outcome = IF o = "ok" THEN "written" ELSE "threw_save"]]
    /\ UNCHANGED <<sentTotal, backups, initData, pc>>

\* PathUtils.readJsonFile(filePath): the parsed text, null (the default) when
\* there is no file, and it throws when the text does not parse
ReadJsonFile(p) ==
    LET f == files[TweetMainFile] IN
    /\ pc[p] = "idle"
    /\ call' = [fn |-> "readJsonFile", arg |-> TweetMainFile,
                res |-> IF Readable(f) THEN [raised |-> FALSE, data |-> f]
                        ELSE IF f.kind = "absent" THEN [raised |-> FALSE, data |-> Absent]
                        ELSE [raised |-> TRUE, data |-> Absent]]
    /\ UNCHANGED storyVars

----------------------------------------------------------------------------
\* Technology epochs: XavierSimulation.run with TechEvolutionGenerator

ongoingTweetsPerYear == 96
techStartYear == 2025
epochYears == 5
MaxOngoing == 970
MaxYear == 2040

NoTech == 0 - 1
PostsPerEpoch == epochYears * ongoingTweetsPerYear

\* XavierSimulation as an object: start() and stop() called on one instance.
\* Each call of start() is an async invocation of its own; config.isRunning is
\* the one field they share. A tick is taken whole here: runOnce with all its
\* awaits, then the timer of the wait.

MaxStarts == 3
MaxTicks == 2

Starts == 1..MaxStarts

NoSimulation ==
    [isRunning |-> FALSE,
     loop |-> [s \in Starts |-> "none"],
     ticks |-> [s \in Starts |-> 0]]

\* What a runOnce ends with: it resolves with posts, it rejects, or it finds the
\* story completed, calls this.stop() and resolves with null
RunOnceResults == {"generated", "threw", "completed"}

\* start(): returns at once when isRunning; else sets it and enters the loop,
\* whose first runOnce begins before start() first awaits
SimStart(s) ==
    /\ sim.loop[s] = "none"
    /\ \A r \in Starts : r < s => sim.loop[r] # "none"
    /\ sim' = IF sim.isRunning
              THEN [sim EXCEPT !.loop[s] = "returned"]
              ELSE [sim EXCEPT !.isRunning = TRUE, !.loop[s] = "runOnce", !.ticks[s] = 1]

\* stop()
SimStop ==
    /\ sim' = [sim EXCEPT !.isRunning = FALSE]

\* await this.runOnce() ends; the loop then awaits a timer, of the random
\* interval or, in the catch, of 3000 ms
SimRunOnce(s, results) ==
    /\ sim.loop[s] = "runOnce"
    /\ \E result \in results :
         sim' = [sim EXCEPT !.loop[s] = "wait",
                            !.isRunning = IF result = "completed" THEN FALSE ELSE @]

\* A loop that does not test the flag again
LoopOn(s) ==
    /\ sim.loop[s] = "wait"
    /\ sim.ticks[s] < MaxTicks
    /\ sim' = [sim EXCEPT !.loop[s] = "runOnce", !.ticks[s] = @ + 1]

\* The timer fires and while (this.config.isRunning) is tested: the next
\* runOnce begins, or start() returns
SimWait(s) ==
    /\ sim.loop[s] = "wait"
    /\ IF sim.isRunning
       THEN /\ sim.ticks[s] < MaxTicks
            /\ sim' = [sim EXCEPT !.loop[s] = "runOnce", !.ticks[s] = @ + 1]
       ELSE sim' = [sim EXCEPT !.loop[s] = "returned"]

\* No function has been called
NoCall == [fn |-> "none", arg |-> <<>>, res |-> <<>>]

NoTechRun ==
    /\ techFile = NoTech
    /\ ongoingTweets = 0
    /\ latestTweetAge = startAge * ongoingTweetsPerYear
    /\ runPc = "idle"
    /\ runCount = 0

\* run, first part: getOngoingTweets and _updateSimulationState
StartRun ==
    /\ runPc = "idle"
    /\ ongoingTweets < MaxOngoing
    /\ runCount' = ongoingTweets
    /\ runPc' = "tech"
    /\ UNCHANGED <<techFile, ongoingTweets, latestTweetAge>>

\* TechEvolutionGenerator._shouldUpdateTech
ShouldUpdateTech(tweets, latestAge, currentTechYear) ==
    IF tweets = 0 THEN FALSE
    ELSE LET yearsSinceLastUpdate == latestAge - startAge * ongoingTweetsPerYear
             yearsSinceCurrentTech == currentTechYear - techStartYear
         IN yearsSinceLastUpdate >= (yearsSinceCurrentTech + epochYears) * ongoingTweetsPerYear

\* TechEvolutionGenerator.generateTechEvolution: the answer of the generator is
\* stored as parsed. It holds the year asked for or one that is `offsets` epochs
\* away; when it is no JSON (parses) JSON.parse throws and the run fails.
\* GithubOperations.updateFile returns false when the write fails (stored), and
\* the epoch is returned all the same.
GenerateTechEvolution(offsets, parses, stored) ==
    LET asked == IF techFile = NoTech THEN techStartYear ELSE techFile + epochYears IN
    /\ runPc = "tech"
    /\ UNCHANGED <<ongoingTweets, latestTweetAge>>
    /\ IF techFile = NoTech \/ ShouldUpdateTech(ongoingTweets, latestTweetAge, techFile)
       THEN \E d \in offsets, parsed \in parses, ok \in stored :
              LET year == asked + d * epochYears IN
              IF ~parsed
              THEN /\ runPc' = "idle"
                   /\ runCount' = 0
                   /\ UNCHANGED techFile
              ELSE /\ techStartYear - epochYears <= year
                   /\ year <= MaxYear
                   /\ techFile' = IF ok THEN year ELSE techFile
                   /\ runPc' = "tweet"
                   /\ UNCHANGED runCount
       ELSE /\ runPc' = "tweet"
            /\ UNCHANGED <<techFile, runCount>>

\* run, last part: the post is generated with currentAge = 22 + tweetCount / 96
\* and GithubOperations.addTweet appends it to ongoing_tweets.json
AddTweet ==
    /\ runPc = "tweet"
    /\ ongoingTweets' = ongoingTweets + 1
    /\ latestTweetAge' = startAge * ongoingTweetsPerYear + runCount
    /\ runPc' = "idle"
    /\ runCount' = 0
    /\ UNCHANGED techFile

----------------------------------------------------------------------------
\* Spec: the runs of the scheduler follow one another (each ends within the
\* interval); every mode, write outcome and completion size can occur.

Init ==
    /\ initData \in {"basic", "full"}
    /\ files \in [Paths -> {Absent, InitialData(initData)}]
    /\ sentTotal = 0
    /\ backups = <<>>
    /\ pc = [p \in {1} |-> "idle"]
    /\ loc = [p \in {1} |-> FreshLocals(FALSE)]
    /\ NoTechRun
    /\ sim = NoSimulation
    /\ call = NoCall

Next ==
    \/ \E p \in DOMAIN pc : RunCommand(p, BOOLEAN) /\ UNCHANGED <<techVars, simVars, call>>
    \/ \E p \in DOMAIN pc : InitUnlink(p) /\ UNCHANGED <<techVars, simVars, call>>
    \/ \E p \in DOMAIN pc : InitWrite(p, WriteOutcomes) /\ UNCHANGED <<techVars, simVars, call>>
    \/ \E p \in DOMAIN pc : GetCurrentSummary(p) /\ UNCHANGED <<techVars, simVars, call>>
    \/ \E p \in DOMAIN pc : BuildPrompt(p) /\ UNCHANGED <<techVars, simVars, call>>
    \/ \E p \in DOMAIN pc : GetCompletion(p, CompletionSizes) /\ UNCHANGED <<techVars, simVars, call>>
    \/ \E p \in DOMAIN pc : SaveTweetsRead(p) /\ UNCHANGED <<techVars, simVars, call>>
    \/ \E p \in DOMAIN pc : SaveTweetsWrite(p, WriteOutcomes) /\ UNCHANGED <<techVars, simVars, call>>
    \/ \E p \in DOMAIN pc : CreateBackup(p) /\ UNCHANGED <<techVars, simVars, call>>
    \/ \E p \in DOMAIN pc : GenerateDigest(p) /\ UNCHANGED <<techVars, simVars, call>>
    \/ \E p \in DOMAIN pc : SaveDigestRead(p) /\ UNCHANGED <<techVars, simVars, call>>
    \/ \E p \in DOMAIN pc : SaveDigestWrite(p, WriteOutcomes) /\ UNCHANGED <<techVars, simVars, call>>
    \/ \E p \in DOMAIN pc : LoopNext(p) /\ UNCHANGED <<techVars, simVars, call>>
    \/ SendTweets /\ UNCHANGED <<techVars, simVars, call>>

Spec == Init /\ [][Next]_vars

\* SpecLoop: one process in continuous mode on a story that has both its files;
\* the generator and the writes of a tick may fail. The timer of the loop's wait
\* always fires: start() awaits setTimeout and nothing else, so a process that
\* waits goes on.
InitLoop ==
    /\ initData = "full"
    /\ files = [f \in Paths |-> InitialData(initData)]
    /\ sentTotal = 0
    /\ backups = <<>>
    /\ pc = [p \in {1} |-> "idle"]
    /\ loc = [p \in {1} |-> FreshLocals(TRUE)]
    /\ NoTechRun
    /\ sim = NoSimulation
    /\ call = NoCall

NextLoop ==
    \/ \E p \in DOMAIN pc : RunCommand(p, {TRUE}) /\ UNCHANGED <<techVars, simVars, call>>
    \/ \E p \in DOMAIN pc : InitUnlink(p) /\ UNCHANGED <<techVars, simVars, call>>
    \/ \E p \in DOMAIN pc : InitWrite(p, {"ok"}) /\ UNCHANGED <<techVars, simVars, call>>
    \/ \E p \in DOMAIN pc : GetCurrentSummary(p) /\ UNCHANGED <<techVars, simVars, call>>
    \/ \E p \in DOMAIN pc : BuildPrompt(p) /\ UNCHANGED <<techVars, simVars, call>>
    \/ \E p \in DOMAIN pc : GetCompletion(p, CompletionSizes) /\ UNCHANGED <<techVars, simVars, call>>
    \/ \E p \in DOMAIN pc : SaveTweetsRead(p) /\ UNCHANGED <<techVars, simVars, call>>
    \/ \E p \in DOMAIN pc : SaveTweetsWrite(p, WriteOutcomes) /\ UNCHANGED <<techVars, simVars, call>>
    \/ \E p \in DOMAIN pc : CreateBackup(p) /\ UNCHANGED <<techVars, simVars, call>>
    \/ \E p \in DOMAIN pc : GenerateDigest(p) /\ UNCHANGED <<techVars, simVars, call>>
    \/ \E p \in DOMAIN pc : SaveDigestRead(p) /\ UNCHANGED <<techVars, simVars, call>>
    \/ \E p \in DOMAIN pc : SaveDigestWrite(p, WriteOutcomes) /\ UNCHANGED <<techVars, simVars, call>>
    \/ \E p \in DOMAIN pc : LoopNext(p) /\ UNCHANGED <<techVars, simVars, call>>

LoopStep == \E p \in DOMAIN pc : LoopNext(p) /\ UNCHANGED <<techVars, simVars, call>>

SpecLoop == InitLoop /\ [][NextLoop]_vars /\ WF_vars(LoopStep)

\* SpecRun: one process in continuous mode whose generator answers and whose
\* writes succeed, tick after tick, while the posting client adds to
\* sent_tweets.json when it does.
NextRun ==
    \/ \E p \in DOMAIN pc : RunCommand(p, {TRUE}) /\ UNCHANGED <<techVars, simVars, call>>
    \/ \E p \in DOMAIN pc : InitUnlink(p) /\ UNCHANGED <<techVars, simVars, call>>
    \/ \E p \in DOMAIN pc : InitWrite(p, {"ok"}) /\ UNCHANGED <<techVars, simVars, call>>
    \/ \E p \in DOMAIN pc : GetCurrentSummary(p) /\ UNCHANGED <<techVars, simVars, call>>
    \/ \E p \in DOMAIN pc : BuildPrompt(p) /\ UNCHANGED <<techVars, simVars, call>>
    \/ \E p \in DOMAIN pc : GetCompletion(p, {tweetsPerScene, localSimulationTweets}) /\ UNCHANGED <<techVars, simVars, call>>
    \/ \E p \in DOMAIN pc : SaveTweetsRead(p) /\ UNCHANGED <<techVars, simVars, call>>
    \/ \E p \in DOMAIN pc : SaveTweetsWrite(p, {"ok"}) /\ UNCHANGED <<techVars, simVars, call>>
    \/ \E p \in DOMAIN pc : CreateBackup(p) /\ UNCHANGED <<techVars, simVars, call>>
    \/ \E p \in DOMAIN pc : GenerateDigest(p) /\ UNCHANGED <<techVars, simVars, call>>
    \/ \E p \in DOMAIN pc : SaveDigestRead(p) /\ UNCHANGED <<techVars, simVars, call>>
    \/ \E p \in DOMAIN pc : SaveDigestWrite(p, {"ok"}) /\ UNCHANGED <<techVars, simVars, call>>
    \/ \E p \in DOMAIN pc : LoopNext(p) /\ UNCHANGED <<techVars, simVars, call>>
    \/ SendTweets /\ UNCHANGED <<techVars, simVars, call>>

SpecRun == InitLoop /\ [][NextRun]_vars

----------------------------------------------------------------------------
\* SpecOverlap: a run takes longer than the scheduler's interval, so NumProcs
\* processes overlap; single-run mode, writes succeed, the generator answers
\* with one scene, and the posting client is ahead by at most one scene.

InitOverlap ==
    /\ initData = "full"
    /\ files = [f \in Paths |-> InitialData(initData)]
    /\ sentTotal = 0
    /\ backups = <<>>
    /\ pc = [p \in Procs |-> "idle"]
    /\ loc = [p \in Procs |-> FreshLocals(FALSE)]
    /\ NoTechRun
    /\ sim = NoSimulation
    /\ call = NoCall

NextOverlap ==
    \/ \E p \in DOMAIN pc : RunCommand(p, {FALSE}) /\ UNCHANGED <<techVars, simVars, call>>
    \/ \E p \in DOMAIN pc : InitUnlink(p) /\ UNCHANGED <<techVars, simVars, call>>
    \/ \E p \in DOMAIN pc : InitWrite(p, {"ok"}) /\ UNCHANGED <<techVars, simVars, call>>
    \/ \E p \in DOMAIN pc : GetCurrentSummary(p) /\ UNCHANGED <<techVars, simVars, call>>
    \/ \E p \in DOMAIN pc : BuildPrompt(p) /\ UNCHANGED <<techVars, simVars, call>>
    \/ \E p \in DOMAIN pc : GetCompletion(p, {tweetsPerScene}) /\ UNCHANGED <<techVars, simVars, call>>
    \/ \E p \in DOMAIN pc : SaveTweetsRead(p) /\ UNCHANGED <<techVars, simVars, call>>
    \/ \E p \in DOMAIN pc : SaveTweetsWrite(p, {"ok"}) /\ UNCHANGED <<techVars, simVars, call>>
    \/ \E p \in DOMAIN pc : CreateBackup(p) /\ UNCHANGED <<techVars, simVars, call>>
    \/ \E p \in DOMAIN pc : GenerateDigest(p) /\ UNCHANGED <<techVars, simVars, call>>
    \/ \E p \in DOMAIN pc : SaveDigestRead(p) /\ UNCHANGED <<techVars, simVars, call>>
    \/ \E p \in DOMAIN pc : SaveDigestWrite(p, {"ok"}) /\ UNCHANGED <<techVars, simVars, call>>

SpecOverlap == InitOverlap /\ [][NextOverlap]_vars

\* SpecOverlapEnd: the same overlapping runs at the end of the story:
\* sent_tweets.json holds every post but those of the last scene.

InitOverlapEnd ==
    /\ initData = "full"
    /\ files = [f \in Paths |-> InitialData(initData)]
    /\ sentTotal = MaxSent - tweetsPerScene
    /\ backups = <<>>
    /\ pc = [p \in Procs |-> "idle"]
    /\ loc = [p \in Procs |-> FreshLocals(FALSE)]
    /\ NoTechRun
    /\ sim = NoSimulation
    /\ call = NoCall

SpecOverlapEnd == InitOverlapEnd /\ [][NextOverlap]_vars

----------------------------------------------------------------------------
\* SpecTech: the runs of XavierSimulation.run one after the other; the generator
\* answers with the year it is asked for and every write succeeds.

InitTech ==
    /\ initData = "full"
    /\ files = [f \in Paths |-> InitialData(initData)]
    /\ sentTotal = 0
    /\ backups = <<>>
    /\ pc = [p \in {1} |-> "idle"]
    /\ loc = [p \in {1} |-> FreshLocals(FALSE)]
    /\ NoTechRun
    /\ sim = NoSimulation
    /\ call = NoCall

NextTech ==
    \/ StartRun /\ UNCHANGED <<storyVars, simVars, call>>
    \/ GenerateTechEvolution({0}, {TRUE}, {TRUE}) /\ UNCHANGED <<storyVars, simVars, call>>
    \/ AddTweet /\ UNCHANGED <<storyVars, simVars, call>>

SpecTech == InitTech /\ [][NextTech]_vars

\* SpecTechAny: the same runs; the generator answers with the year asked for,
\* the one an epoch before or after it, or with text that does not parse, and a
\* write may fail.

NextTechAny ==
    \/ StartRun /\ UNCHANGED <<storyVars, simVars, call>>
    \/ GenerateTechEvolution({0 - 1, 0, 1}, BOOLEAN, BOOLEAN) /\ UNCHANGED <<storyVars, simVars, call>>
    \/ AddTweet /\ UNCHANGED <<storyVars, simVars, call>>

SpecTechAny == InitTech /\ [][NextTechAny]_vars

\* SpecTechStore: the same runs with a generator that answers with the year
\* asked for; the write of tech_evolution.json may fail.

NextTechStore ==
    \/ StartRun /\ UNCHANGED <<storyVars, simVars, call>>
    \/ GenerateTechEvolution({0}, {TRUE}, BOOLEAN) /\ UNCHANGED <<storyVars, simVars, call>>
    \/ AddTweet /\ UNCHANGED <<storyVars, simVars, call>>

SpecTechStore == InitTech /\ [][NextTechStore]_vars

\* SpecTechYears: the same runs with a generator whose answer parses and holds the
\* year asked for or the one an epoch before or after it; every write succeeds.

NextTechYears ==
    \/ StartRun /\ UNCHANGED <<storyVars, simVars, call>>
    \/ GenerateTechEvolution({0 - 1, 0, 1}, {TRUE}, {TRUE}) /\ UNCHANGED <<storyVars, simVars, call>>
    \/ AddTweet /\ UNCHANGED <<storyVars, simVars, call>>

SpecTechYears == InitTech /\ [][NextTechYears]_vars

----------------------------------------------------------------------------
\* SpecData: runs that follow one another, each answer of the generator one
\* scene, and between them a client that saves the story through DataManager.
\* A copy to the backup directory may fail, and so may the write of
\* DataManager; the writes of the runs succeed.

NextData ==
    \/ \E p \in DOMAIN pc : RunCommand(p, BOOLEAN) /\ UNCHANGED <<techVars, simVars, call>>
    \/ \E p \in DOMAIN pc : InitUnlink(p) /\ UNCHANGED <<techVars, simVars, call>>
    \/ \E p \in DOMAIN pc : InitWrite(p, {"ok"}) /\ UNCHANGED <<techVars, simVars, call>>
    \/ \E p \in DOMAIN pc : GetCurrentSummary(p) /\ UNCHANGED <<techVars, simVars, call>>
    \/ \E p \in DOMAIN pc : BuildPrompt(p) /\ UNCHANGED <<techVars, simVars, call>>
    \/ \E p \in DOMAIN pc : GetCompletion(p, {tweetsPerScene}) /\ UNCHANGED <<techVars, simVars, call>>
    \/ \E p \in DOMAIN pc : SaveTweetsRead(p) /\ UNCHANGED <<techVars, simVars, call>>
    \/ \E p \in DOMAIN pc : SaveTweetsWrite(p, {"ok"}) /\ UNCHANGED <<techVars, simVars, call>>
    \/ \E p \in DOMAIN pc : CreateBackup(p) /\ UNCHANGED <<techVars, simVars, call>>
    \/ \E p \in DOMAIN pc : GenerateDigest(p) /\ UNCHANGED <<techVars, simVars, call>>
    \/ \E p \in DOMAIN pc : SaveDigestRead(p) /\ UNCHANGED <<techVars, simVars, call>>
    \/ \E p \in DOMAIN pc : SaveDigestWrite(p, {"ok"}) /\ UNCHANGED <<techVars, simVars, call>>
    \/ \E p \in DOMAIN pc : LoopNext(p) /\ UNCHANGED <<techVars, simVars, call>>
    \/ SendTweets /\ UNCHANGED <<techVars, simVars, call>>
    \/ \E p \in DOMAIN pc : SaveData(p) /\ UNCHANGED <<techVars, simVars, call>>
    \/ \E p \in DOMAIN pc : DataCreateBackup(p) /\ UNCHANGED <<techVars, simVars, call>>
    \/ \E p \in DOMAIN pc : DataWrite(p, WriteOutcomes) /\ UNCHANGED <<techVars, simVars, call>>

SpecData == Init /\ [][NextData]_vars

\* SpecStore: a client of DataManager and PathUtils that saves and loads the
\* story file, one call after the other; a write may fail. A save uses up the
\* result of the load before it.
NextStore ==
    \/ \E p \in DOMAIN pc : SaveData(p) /\ call' = NoCall /\ UNCHANGED <<techVars, simVars>>
    \/ \E p \in DOMAIN pc : DataCreateBackup(p) /\ UNCHANGED <<techVars, simVars, call>>
    \/ \E p \in DOMAIN pc : DataWrite(p, WriteOutcomes) /\ UNCHANGED <<techVars, simVars, call>>
    \/ \E p \in DOMAIN pc : GetData(p) /\ UNCHANGED <<techVars, simVars>>
    \/ \E p \in DOMAIN pc : WriteJsonFile(p, WriteOutcomes) /\ call' = NoCall /\ UNCHANGED <<techVars, simVars>>
    \/ \E p \in DOMAIN pc : ReadJsonFile(p) /\ UNCHANGED <<techVars, simVars>>

SpecStore == Init /\ [][NextStore]_vars

----------------------------------------------------------------------------
\* SpecCalc: the functions of the program that compute a value from their
\* arguments alone, called with arguments drawn from bounded sets.

PostCounts == 0..MaxPosts

\* TweetGenerator._calculateAge, for two post counts in order
CallCalculateAge ==
    /\ call = NoCall
    /\ \E t1 \in PostCounts, t2 \in PostCounts :
           /\ t1 <= t2
           /\ call' = [fn |-> "TweetGenerator._calculateAge", arg |-> <<t1, t2>>,
                       res |-> <<CalculateAge(t1), CalculateAge(t2)>>]

\* DigestGenerator._calculateAge, for two post counts in order
CallDigestCalculateAge ==
    /\ call = NoCall
    /\ \E t1 \in PostCounts, t2 \in PostCounts :
           /\ t1 <= t2
           /\ call' = [fn |-> "DigestGenerator._calculateAge", arg |-> <<t1, t2>>,
                       res |-> <<DigestCalculateAge(t1), DigestCalculateAge(t2)>>]

\* Story lengths at which a digest is saved: up to MaxIntervals digest intervals
DigestCounts == {digestInterval * k : k \in 0..MaxIntervals}

\* TweetGenerator._saveTweets on the initial story with sent posts in
\* sent_tweets.json: the age and phase it persists
CallSaveTweets ==
    /\ call = NoCall
    /\ \E sent \in DigestCounts, n \in CompletionSizes \ {0} :
           /\ CalculateAge(sent) < endAge * 100
           /\ LET new == NewStoryData(InitialData("full"), n, sent) IN
              call' = [fn |-> "TweetGenerator._saveTweets", arg |-> <<sent, n>>,
                       res |-> <<new.currentAge, new.currentPhase>>]

\* DigestGenerator._saveDigest on the initial story, or on what an earlier
\* _saveDigest left of it: the age and phase it persists
CallSaveDigest ==
    /\ call = NoCall
    /\ \E t0 \in DigestCounts, t \in DigestCounts :
           /\ t0 <= t
           /\ LET storyData == IF t0 = 0 THEN InitialData("full")
                               ELSE NewDigestData(InitialData("full"), digestInterval, t0)
                  new == NewDigestData(storyData, digestInterval, t)
              IN call' = [fn |-> "DigestGenerator._saveDigest", arg |-> <<t0, t>>,
                          res |-> <<new.currentAge, new.currentPhase>>]

\* The end ages the story is configured with: the scaled one and the end of
\* the last life phase
EndAges == {endAge, lastPhaseEnd}

\* Ages from startAge to end, a quarter of a year apart
AgesTo(end) == {startAge * 100 + 25 * k : k \in 0..(4 * (end - startAge))}

\* The three phase functions on an age of the story: _calculatePhase,
\* TweetGenerator._getCurrentPhase and the scene generator's _getCurrentPhase
CallGetCurrentPhase ==
    /\ call = NoCall
    /\ \E end \in EndAges : \E age \in AgesTo(end) :
           call' = [fn |-> "_getCurrentPhase", arg |-> <<age, end>>,
                    res |-> <<GetPhase(age), GetCurrentPhaseTo(age, end), LifePhase(age)>>]

\* The age and phase _saveTweets derives from a number of posts
CallPhaseOfPosts ==
    /\ call = NoCall
    /\ \E end \in EndAges : \E t \in DigestCounts :
           LET age == CalculateAgeTo(t, end) IN
           call' = [fn |-> "_calculateAge, _getCurrentPhase", arg |-> <<t, end>>,
                    res |-> <<age, GetCurrentPhaseTo(age, end)>>]

\* _checkAndRecordLifeEvents: the three life events, with their ages
LifeEvents ==
    <<[age |-> 2700, type |-> "relationship"],
      [age |-> 3200, type |-> "marriage"],
      [age |-> 3400, type |-> "family"]>>

\* One turn of its forEach: the event is pushed when its age is reached and no
\* plot point has its type. A plot point is modelled by its type.
RecordEvent(keyPlotPoints, currentAge, event) ==
    IF currentAge >= event.age /\ ~(\E i \in 1..Len(keyPlotPoints) : keyPlotPoints[i] = event.type)
    THEN Append(keyPlotPoints, event.type)
    ELSE keyPlotPoints

\* One turn of a forEach that pushes the event whenever its age is reached
PushEvent(keyPlotPoints, currentAge, event) ==
    IF currentAge >= event.age THEN Append(keyPlotPoints, event.type) ELSE keyPlotPoints

\* Every due event pushed, present or not
PushLifeEvents(keyPlotPoints, currentAge) ==
    PushEvent(PushEvent(PushEvent(keyPlotPoints, currentAge, LifeEvents[1]),
                        currentAge, LifeEvents[2]),
              currentAge, LifeEvents[3])

\* TweetGenerator._checkAndRecordLifeEvents on story.keyPlotPoints
CheckAndRecordLifeEvents(keyPlotPoints, currentAge) ==
    RecordEvent(RecordEvent(RecordEvent(keyPlotPoints, currentAge, LifeEvents[1]),
                            currentAge, LifeEvents[2]),
                currentAge, LifeEvents[3])

\* _saveTweets after _saveTweets: _updatePersonalStatus calls
\* _checkAndRecordLifeEvents on the plot points of the story read, which are
\* those of INITIAL_DATA (none) or those the save before left
CallCheckAndRecordLifeEvents ==
    /\ call = NoCall \/ call.fn = "_checkAndRecordLifeEvents"
    /\ \E currentAge \in AgesTo(lastPhaseEnd) :
           LET keyPlotPoints == IF call = NoCall THEN <<>> ELSE call.res IN
           call' = [fn |-> "_checkAndRecordLifeEvents",
                    arg |-> <<keyPlotPoints, currentAge>>,
                    res |-> CheckAndRecordLifeEvents(keyPlotPoints, currentAge)]

\* What client.chat.completions.create does in one request: there may be no
\* client, the request may reject, or it answers with a number of paragraphs
ApiAnswers ==
    [client : BOOLEAN, rejects : BOOLEAN, paragraphs : 0..MaxCompletion]

\* A completion request that lets the failure of the request through
RaiseCompletion(api) ==
    IF ~api.client THEN [raised |-> FALSE, tweets |-> localSimulationTweets]
    ELSE IF api.rejects THEN [raised |-> TRUE, tweets |-> 0]
    ELSE [raised |-> FALSE, tweets |-> api.paragraphs]

\* AICompletion._getAICompletion: the posts parsed from the answer, one for each
\* paragraph; the local simulation when there is no client or the request fails
GetAICompletion(api) ==
    IF ~api.client THEN [raised |-> FALSE, tweets |-> localSimulationTweets]
    ELSE IF api.rejects THEN [raised |-> FALSE, tweets |-> localSimulationTweets]
    ELSE [raised |-> FALSE, tweets |-> api.paragraphs]

\* DigestGenerator._generateAIDigest: the digest is made of the first text of
\* the completion when that has 50 characters or more, else it is the local
\* template, as it is when the completion raises
GenerateAIDigest(api, longText) ==
    LET response == GetAICompletion(api) IN
    IF response.raised THEN "local"
    ELSE IF response.tweets = 0 \/ ~longText THEN "local"
    ELSE "ai"

CallGetAICompletion ==
    /\ call = NoCall
    /\ \E api \in ApiAnswers :
           call' = [fn |-> "_getAICompletion", arg |-> api, res |-> GetAICompletion(api)]

CallGenerateAIDigest ==
    /\ call = NoCall
    /\ \E api \in ApiAnswers, longText \in BOOLEAN :
           call' = [fn |-> "_generateAIDigest", arg |-> api,
                    res |-> GenerateAIDigest(api, longText)]

\* TweetGenerator._calculateYearProgress: the year is a number; the progress is
\* the text toFixed(1) gives, kept here as its number of tenths. toFixed rounds
\* to the nearest tenth and, of two equally near, to the larger.
CalculateYearProgress(tweetCount) ==
    [year |-> tweetCount \div tweetsPerYear,
     progress |-> (2 * (tweetCount % tweetsPerYear) * 1000 + tweetsPerYear)
                     \div (2 * tweetsPerYear)]

CallCalculateYearProgress ==
    /\ call = NoCall
    /\ \E tweetCount \in PostCounts :
           call' = [fn |-> "_calculateYearProgress", arg |-> tweetCount,
                    res |-> CalculateYearProgress(tweetCount)]

\* The call has returned and its result has been used
CallReturn ==
    /\ call # NoCall
    /\ call' = NoCall

NextCalc ==
    \/ CallCalculateAge /\ UNCHANGED <<storyVars, techVars, simVars>>
    \/ CallDigestCalculateAge /\ UNCHANGED <<storyVars, techVars, simVars>>
    \/ CallSaveTweets /\ UNCHANGED <<storyVars, techVars, simVars>>
    \/ CallSaveDigest /\ UNCHANGED <<storyVars, techVars, simVars>>
    \/ CallGetCurrentPhase /\ UNCHANGED <<storyVars, techVars, simVars>>
    \/ CallPhaseOfPosts /\ UNCHANGED <<storyVars, techVars, simVars>>
    \/ CallCheckAndRecordLifeEvents /\ UNCHANGED <<storyVars, techVars, simVars>>
    \/ CallGetAICompletion /\ UNCHANGED <<storyVars, techVars, simVars>>
    \/ CallGenerateAIDigest /\ UNCHANGED <<storyVars, techVars, simVars>>
    \/ CallCalculateYearProgress /\ UNCHANGED <<storyVars, techVars, simVars>>
    \/ CallReturn /\ UNCHANGED <<storyVars, techVars, simVars>>

SpecCalc == InitTech /\ [][NextCalc]_vars

----------------------------------------------------------------------------
\* SpecDay: the ticks of one continuous run whose story is some posts short of
\* a multiple of maxTweetsPerDay, told by the length of the story, the posts
\* generated since midnight and the day. The story is not completed (its age
\* follows sent_tweets.json), so runOnce gets to its daily checks.

MaxBefore == 8
MaxOver == 8
MaxDays == 3

\* _checkDailyLimit(totalTweets); today and dayStart are computed and not used
CheckDailyLimit(totalTweets) ==
    LET tweetsToday == totalTweets % maxTweetsPerDay
    IN tweetsToday < maxTweetsPerDay

\* runOnce after the completion check: the daily limit, then the posts left
\* before the next multiple of maxTweetsPerDay against those of a batch.
\* today, the posts generated since midnight, is known to the model only.
RunOnceChecks(totalTweets, today) ==
    IF ~CheckDailyLimit(totalTweets) THEN "limit"
    ELSE IF maxTweetsPerDay - (totalTweets % maxTweetsPerDay)
               < tweetsPerScene * scenesPerBatch THEN "skipped"
    ELSE "generate"

\* The answers of the generator: one paragraph, one scene, the local simulation
DaySizes == {1, tweetsPerScene, localSimulationTweets}

DayTotals == (maxTweetsPerDay - MaxBefore)..maxTweetsPerDay

\* The loop is at a tick with a story of totalTweets posts, all of them or
\* none of them generated since midnight
DayStart ==
    /\ call = NoCall
    /\ \E totalTweets \in DayTotals : \E today \in {0, totalTweets} :
         call' = [fn |-> "runOnce",
                  arg |-> [totalTweets |-> totalTweets, today |-> today, day |-> 0],
                  res |-> "none"]

\* One tick. When a check fails runOnce awaits _getTimeToNextDay() and
\* returns; else the scene is generated and saved.
RunOnceTick(sizes) ==
    LET a == call.arg
        checks == RunOnceChecks(a.totalTweets, a.today)
    IN
    /\ call.fn = "runOnce"
    /\ IF checks = "generate"
       THEN \E n \in sizes :
              /\ a.totalTweets + n <= maxTweetsPerDay + MaxOver
              /\ call' = [call EXCEPT !.arg.totalTweets = @ + n,
                                      !.arg.today = @ + n,
                                      !.res = "generated"]
       ELSE call' = [call EXCEPT !.arg.day = (@ + 1) % MaxDays,
                                 !.arg.today = 0,
                                 !.res = checks]

\* Midnight passes between two ticks
Midnight ==
    /\ call.fn = "runOnce"
    /\ call' = [call EXCEPT !.arg.day = (@ + 1) % MaxDays, !.arg.today = 0]

NextDay ==
    \/ DayStart /\ UNCHANGED <<storyVars, techVars, simVars>>
    \/ RunOnceTick(DaySizes) /\ UNCHANGED <<storyVars, techVars, simVars>>
    \/ Midnight /\ UNCHANGED <<storyVars, techVars, simVars>>

\* The timers of the loop fire, so a tick follows a tick
TickStep == RunOnceTick(DaySizes) /\ UNCHANGED <<storyVars, techVars, simVars>>

SpecDay == InitTech /\ [][NextDay]_vars /\ WF_vars(TickStep)

----------------------------------------------------------------------------
\* SpecSim: start() and stop() called in any order on one XavierSimulation; a
\* runOnce under way ends and a timer awaited fires.

NextSim ==
    \/ \E s \in Starts : SimStart(s) /\ UNCHANGED <<storyVars, techVars, call>>
    \/ SimStop /\ UNCHANGED <<storyVars, techVars, call>>
    \/ \E s \in Starts : SimRunOnce(s, RunOnceResults) /\ UNCHANGED <<storyVars, techVars, call>>
    \/ \E s \in Starts : SimWait(s) /\ UNCHANGED <<storyVars, techVars, call>>

SimFairness ==
    \A s \in Starts :
       /\ WF_vars(SimRunOnce(s, RunOnceResults) /\ UNCHANGED <<storyVars, techVars, call>>)
       /\ WF_vars(SimWait(s) /\ UNCHANGED <<storyVars, techVars, call>>)

SpecSim == InitTech /\ [][NextSim]_vars /\ SimFairness

----------------------------------------------------------------------------
\* TweetGenerator._analyzeRepliesForStoryAdjustment: the analysis and the
\* ranking of the replies to the latest post

MaxWords == 4
MaxReplies == 4
selectedReplies == 3

\* Words a reply is made of. Each is one of the strings the analysis looks for,
\* but "details", which holds "ai", and "adventure", which only
\* _extractKeywords looks for.
Vocabulary ==
    {"must", "should", "maybe", "perhaps", "try", "tech", "research", "details",
     "project", "startup", "company", "adventure", "friend", "work", "travel",
     "stop"}

\* Characters of a reply that are none of the strings looked for
FillerLengths == {0, 20, 50}

\* String.prototype.includes on one word: case-sensitive substring search
Includes(word, needle) == needle = word \/ (word = "details" /\ needle = "ai")

\* content.includes(needle) for one of the needles
IncludesAny(content, needles) ==
    \E word \in content.words : \E needle \in needles : Includes(word, needle)

RECURSIVE WordsLength(_)
WordsLength(words) ==
    IF words = {} THEN 0
    ELSE LET word == CHOOSE w \in words : TRUE
         IN Len(word) + WordsLength(words \ {word})

\* content.length: the words, a blank between two of them, and the filler
ContentLength(content) ==
    WordsLength(content.words)
      + (IF content.words = {} THEN 0 ELSE Cardinality(content.words) - 1)
      + content.filler

\* reply.content.replace(/@XaviersSimACTII/g, '').trim()
CleanContent(reply) == [words |-> reply.words, filler |-> reply.filler]

Replies ==
    {r \in [words : SUBSET Vocabulary, filler : FillerLengths, mention : BOOLEAN] :
        Cardinality(r.words) <= MaxWords}

\* _getSuggestionType; the ideographic needles match no word of Vocabulary
GetSuggestionType(content) ==
    LET types ==
          (IF IncludesAny(content, {"ai", "tech", "research", "development", "coding"})
             THEN {"TECH"} ELSE {})
          \cup (IF IncludesAny(content, {"friend", "family", "relationship", "love", "partner"})
             THEN {"RELATIONSHIP"} ELSE {})
          \cup (IF IncludesAny(content, {"career", "job", "work", "promotion", "business"})
             THEN {"CAREER"} ELSE {})
          \cup (IF IncludesAny(content, {"change", "move", "travel", "decision", "try"})
             THEN {"LIFE_EVENT"} ELSE {})
    IN IF types # {} THEN types ELSE {"GENERAL"}

\* _analyzeImpact: the first level, in the order high, medium, low, one of
\* whose words the content includes; medium when there is none
AnalyzeImpact(content) ==
    IF IncludesAny(content, {"must", "should", "need to"}) THEN "high"
    ELSE IF IncludesAny(content, {"suggest", "could", "maybe"}) THEN "medium"
    ELSE IF IncludesAny(content, {"perhaps", "might", "try"}) THEN "low"
    ELSE "medium"

\* _analyzeMood
AnalyzeMood(content) ==
    IF IncludesAny(content, {"don't", "stop", "no"}) THEN "negative"
    ELSE IF IncludesAny(content, {"should", "try", "can"}) THEN "positive"
    ELSE "neutral"

\* _extractKeywords
ExtractKeywords(content) ==
    (IF IncludesAny(content, {"ai"}) THEN {"AI"} ELSE {})
    \cup (IF IncludesAny(content, {"research"}) THEN {"RESEARCH"} ELSE {})
    \cup (IF IncludesAny(content, {"project"}) THEN {"PROJECT"} ELSE {})
    \cup (IF IncludesAny(content, {"love"}) THEN {"LOVE"} ELSE {})
    \cup (IF IncludesAny(content, {"family"}) THEN {"FAMILY"} ELSE {})
    \cup (IF IncludesAny(content, {"friend"}) THEN {"FRIEND"} ELSE {})
    \cup (IF IncludesAny(content, {"work"}) THEN {"WORK"} ELSE {})
    \cup (IF IncludesAny(content, {"startup"}) THEN {"STARTUP"} ELSE {})
    \cup (IF IncludesAny(content, {"company"}) THEN {"COMPANY"} ELSE {})
    \cup (IF IncludesAny(content, {"change"}) THEN {"CHANGE"} ELSE {})
    \cup (IF IncludesAny(content, {"adventure"}) THEN {"ADVENTURE"} ELSE {})
    \cup (IF IncludesAny(content, {"travel"}) THEN {"TRAVEL"} ELSE {})

\* A score that counts every keyword
ScoreEveryKeyword(analysis) ==
    (IF analysis.impact = "high" THEN 3 ELSE IF analysis.impact = "medium" THEN 2 ELSE 1)
    + (IF "TECH" \in analysis.type THEN 2 ELSE 0)
    + (IF "CAREER" \in analysis.type THEN 2 ELSE 0)
    + (IF "LIFE_EVENT" \in analysis.type THEN 2 ELSE 0)
    + (IF "RELATIONSHIP" \in analysis.type THEN 2 ELSE 0)
    + Cardinality(analysis.keywords)
    + (IF ContentLength(analysis.content) > 50 THEN 2
       ELSE IF ContentLength(analysis.content) > 20 THEN 1 ELSE 0)
    + (IF analysis.mood # "neutral" THEN 1 ELSE 0)

\* _calculateRelevanceScore
CalculateRelevanceScore(analysis) ==
    (IF analysis.impact = "high" THEN 3 ELSE IF analysis.impact = "medium" THEN 2 ELSE 1)
    + (IF "TECH" \in analysis.type THEN 2 ELSE 0)
    + (IF "CAREER" \in analysis.type THEN 2 ELSE 0)
    + (IF "LIFE_EVENT" \in analysis.type THEN 2 ELSE 0)
    + (IF "RELATIONSHIP" \in analysis.type THEN 2 ELSE 0)
    + Min(Cardinality(analysis.keywords), 3)
    + (IF ContentLength(analysis.content) > 50 THEN 2
       ELSE IF ContentLength(analysis.content) > 20 THEN 1 ELSE 0)
    + (IF analysis.mood # "neutral" THEN 1 ELSE 0)

\* The body of replies.map: the analysis of one reply. arrival is the reply's
\* place in the list, which stands for the identity of the object.
AnalyzeReply(reply, arrival) ==
    LET cleanContent == CleanContent(reply)
        analysis == [content |-> cleanContent,
                     type |-> GetSuggestionType(cleanContent),
                     impact |-> AnalyzeImpact(cleanContent),
                     mood |-> AnalyzeMood(cleanContent),
                     keywords |-> ExtractKeywords(cleanContent)]
    IN [arrival |-> arrival, content |-> cleanContent, type |-> analysis.type,
        impact |-> analysis.impact, mood |-> analysis.mood,
        keywords |-> analysis.keywords,
        relevanceScore |-> CalculateRelevanceScore(analysis)]

\* A sort that puts a reply before the earlier ones of its score
InsertBeforeTies(sorted, a) ==
    LET before == {i \in 1..Len(sorted) : sorted[i].relevanceScore > a.relevanceScore}
    IN SubSeq(sorted, 1, Cardinality(before)) \o <<a>>
         \o SubSeq(sorted, Cardinality(before) + 1, Len(sorted))

\* Array.prototype.sort with (a, b) => b.relevanceScore - a.relevanceScore is
\* stable: a reply goes after the earlier ones of its score or a higher one
InsertByScore(sorted, a) ==
    LET before == {i \in 1..Len(sorted) : sorted[i].relevanceScore >= a.relevanceScore}
    IN SubSeq(sorted, 1, Cardinality(before)) \o <<a>>
         \o SubSeq(sorted, Cardinality(before) + 1, Len(sorted))

RECURSIVE SortByScore(_)
SortByScore(analyzed) ==
    IF analyzed = <<>> THEN <<>>
    ELSE InsertByScore(SortByScore(SubSeq(analyzed, 1, Len(analyzed) - 1)),
                       analyzed[Len(analyzed)])

\* The latest post, as _getLatestTweetAndReplies returns it: none, or one of two.
\* It reads the replies of a post only, so with no post there are no replies.
Tweets == {"none", "tweet_1", "tweet_2"}

NoAdjustments == [null |-> TRUE, suggestions |-> <<>>]

\* A ranking that the post replied to turns around
AdjustmentsOfTweet(latestTweetAndReplies) ==
    LET replies == latestTweetAndReplies.replies
        analyzedReplies == [i \in 1..Len(replies) |-> AnalyzeReply(replies[i], i)]
        sorted == SortByScore(analyzedReplies)
        turned == [i \in 1..Len(sorted) |-> sorted[Len(sorted) + 1 - i]]
        ranked == IF latestTweetAndReplies.tweet = "tweet_2" THEN turned ELSE sorted
    IN IF latestTweetAndReplies.tweet = "none" \/ Len(replies) = 0
       THEN NoAdjustments
       ELSE [null |-> FALSE,
             suggestions |-> SubSeq(ranked, 1, Min(Len(ranked), selectedReplies))]

\* _analyzeRepliesForStoryAdjustment
AnalyzeRepliesForStoryAdjustment(latestTweetAndReplies) ==
    LET replies == latestTweetAndReplies.replies
        analyzedReplies == [i \in 1..Len(replies) |-> AnalyzeReply(replies[i], i)]
        sorted == SortByScore(analyzedReplies)
    IN IF latestTweetAndReplies.tweet = "none" \/ Len(replies) = 0
       THEN NoAdjustments
       ELSE [null |-> FALSE,
             suggestions |-> SubSeq(sorted, 1, Min(Len(sorted), selectedReplies))]

\* The replies the ranked lists are drawn from: scores 5, 6, 5, 8, 2 and 1
SampleReplies ==
    {[words |-> {"must", "tech"}, filler |-> 0, mention |-> TRUE],
     [words |-> {"perhaps", "startup", "company", "project"}, filler |-> 20, mention |-> FALSE],
     [words |-> {"maybe", "try"}, filler |-> 0, mention |-> FALSE],
     [words |-> {"must", "details", "research"}, filler |-> 0, mention |-> TRUE],
     [words |-> {}, filler |-> 0, mention |-> TRUE],
     [words |-> {"perhaps"}, filler |-> 0, mention |-> FALSE]}

ReplyLists == UNION {[1..n -> SampleReplies] : n \in 0..MaxReplies}

CallAnalyzeReply ==
    /\ call = NoCall
    /\ \E reply \in Replies :
           call' = [fn |-> "_calculateRelevanceScore", arg |-> reply,
                    res |-> AnalyzeReply(reply, 1)]

CallAnalyzeReplies ==
    /\ call = NoCall
    /\ \E tweet \in Tweets, replies \in ReplyLists :
           LET latest == [tweet |-> tweet, replies |-> replies] IN
           /\ tweet = "none" => replies = <<>>
           /\ call' = [fn |-> "_analyzeRepliesForStoryAdjustment",
                    arg |-> [tweet |-> tweet, replies |-> replies, again |-> FALSE],
                    res |-> AnalyzeRepliesForStoryAdjustment(latest)]

\* The next tick ranks the same replies, whatever the latest post is by then
CallAnalyzeRepliesAgain ==
    /\ call.fn = "_analyzeRepliesForStoryAdjustment"
    /\ ~call.arg.again
    /\ \E tweet \in Tweets :
           LET latest == [tweet |-> tweet, replies |-> call.arg.replies] IN
           /\ tweet = "none" => call.arg.replies = <<>>
           /\ call' = [fn |-> "_analyzeRepliesForStoryAdjustment",
                    arg |-> [tweet |-> tweet, replies |-> call.arg.replies, again |-> TRUE],
                    res |-> AnalyzeRepliesForStoryAdjustment(latest)]

NextRank ==
    \/ CallAnalyzeReply /\ UNCHANGED <<storyVars, techVars, simVars>>
    \/ CallAnalyzeReplies /\ UNCHANGED <<storyVars, techVars, simVars>>
    \/ CallAnalyzeRepliesAgain /\ UNCHANGED <<storyVars, techVars, simVars>>
    \/ CallReturn /\ UNCHANGED <<storyVars, techVars, simVars>>

SpecRank == InitTech /\ [][NextRank]_vars

----------------------------------------------------------------------------
\* Properties

updateThreshold == 48

\* The story file holds an age at or above endAge: what getCurrentSummary and
\* runOnce take for the completed story
Completed(f) == Readable(f) /\ f.hasAge /\ f.currentAge >= endAge * 100

\* No tick of p is under way
BetweenTicks(p) == pc[p] \in {"idle", "unlink", "initwrite", "summary", "wait"}

\* p is between the load and the last save of a tick
InTick(p) ==
    pc[p] \in {"summary", "prompt", "ai", "save_read", "save_write", "backup",
               "digest", "digest_read", "digest_write"}

PostCount(f) == IF Readable(f) THEN f.tweets ELSE 0

StatsTotalTweets(f) == IF Readable(f) /\ f.hasStats THEN f.totalTweets ELSE 0

\* The post count a digest's age was computed from (0 for the seed digest)
PostsOfAge(a) ==
    IF a = NoAge THEN 0
    ELSE CHOOSE t \in 0..(MaxTweets + MaxCompletion) : DigestCalculateAge(t) = a

\* C1: once the persisted age has reached endAge the completed state is terminal:
\* whatever happens after the tick that completed the story, the story file stays
\* completed, no generation is started and no digest is appended.
C1_CompletedIsTerminal ==
    [][(Completed(files[TweetMainFile]) /\ \A p \in DOMAIN pc : BetweenTicks(p))
          => /\ Completed(files'[TweetMainFile])
             /\ \A p \in DOMAIN pc : pc'[p] # "prompt"
             /\ files'[DigestMainFile] = files[DigestMainFile]]_vars

\* C2: at most one tick at a time is between its load and its last save, the
\* ticks of the processes started by the scheduler included.
C2_OneTickAtATime ==
    Cardinality({p \in DOMAIN pc : InTick(p)}) <= 1

\* C3: when a tick fails in its digest step after it generated posts, the story
\* file holds none of these posts: it has the posts the tick loaded.
C3_TickIsAllOrNothing ==
    [][\A p \in DOMAIN pc :
         (loc[p].outcome = "running" /\ loc[p].saved > 0
            /\ loc'[p].outcome = "threw_digest")
           => PostCount(files'[TweetMainFile]) = loc[p].sumTotal]_vars

\* C4: in every persisted state that has an age and stats, metadata.currentAge is
\* the age of stats.totalTweets.
C4_AgeOfTotalTweets ==
    \A path \in Paths :
       LET f == files[path] IN
       (Readable(f) /\ f.hasAge /\ f.hasStats) => f.currentAge = CalculateAge(f.totalTweets)

\* C5: a tick appends a digest exactly when digestInterval posts have accumulated
\* since the last digest; here, only then.
C5_DigestAtInterval ==
    [][\A p \in DOMAIN pc :
         (pc[p] = "digest_write"
            /\ Len(files'[DigestMainFile].digests) > Len(files[DigestMainFile].digests))
           => LET digests == files[DigestMainFile].digests
                  last == digests[Len(digests)]
              IN (loc[p].sumTotal + loc[p].saved) - PostsOfAge(last.age) = digestInterval]_vars

\* The epoch an age (in posts) lies in, and the posts left before the next one
EpochYear(age) ==
    techStartYear
      + epochYears * ((age - startAge * ongoingTweetsPerYear) \div PostsPerEpoch)

PostsToNextEpoch(tweetCount) == PostsPerEpoch - (tweetCount % PostsPerEpoch)

\* C6: the epoch of the latest post exists when that post does, and once a run
\* has passed its technology step with updateThreshold posts or fewer left before
\* the next epoch, that next epoch exists.
C6_EpochReadyBeforeBoundary ==
    /\ ongoingTweets > 0 => (techFile # NoTech /\ techFile >= EpochYear(latestTweetAge))
    /\ (runPc = "tweet" /\ PostsToNextEpoch(runCount) <= updateThreshold)
         => techFile >= EpochYear(startAge * ongoingTweetsPerYear + runCount) + epochYears

\* C7: the epochs are stored in sequence: each newly stored epoch starts
\* epochYears after the one it replaces, none skipped and none repeated.
C7_EpochsInSequence ==
    [][(techFile # NoTech /\ techFile' # techFile)
         => techFile' = techFile + epochYears]_vars

\* C8: the number of persisted posts and stats.totalTweets never decrease, from
\* one readable-or-absent story file to the next.
C8_PostCountNeverDecreases ==
    [][(files[TweetMainFile].kind # "corrupt" /\ files'[TweetMainFile].kind # "corrupt")
         => /\ PostCount(files'[TweetMainFile]) >= PostCount(files[TweetMainFile])
            /\ StatsTotalTweets(files'[TweetMainFile])
                 >= StatsTotalTweets(files[TweetMainFile])]_vars

\* C9: a load that finds the story file absent or corrupt does not fail: it leaves
\* a fresh initial state in the file.
C9_LoadNeverFails ==
    [][\A p \in DOMAIN pc :
         (pc[p] = "summary" /\ pc'[p] # "summary" /\ ~Readable(files[TweetMainFile]))
           => /\ loc'[p].outcome # "threw_load"
              /\ Readable(files'[TweetMainFile])
              /\ files'[TweetMainFile].hasAge
              /\ files'[TweetMainFile].currentAge = startAge * 100
              /\ files'[TweetMainFile].tweets = 0]_vars

\* C10: after a save, the newest backup holds the story as it was before the save.
C10_BackupHoldsPreviousVersion ==
    [][\A p \in DOMAIN pc :
         (pc[p] = "backup" /\ pc'[p] = "digest" /\ backups' # backups)
           => backups'[Len(backups')] = loc[p].sumTotal]_vars


\* A step of TweetGenerator._createBackup that changed the backup directory
TweetBackupStep(p) == pc[p] = "backup" /\ pc'[p] = "digest" /\ backups' # backups

\* A step of DataManager._createBackup that changed the backup directory
DataBackupStep(p) == pc[p] = "dm_backup" /\ pc'[p] = "dm_write" /\ backups' # backups

IsSuffix(list, whole) ==
    /\ Len(list) <= Len(whole)
    /\ list = SubSeq(whole, Len(whole) - Len(list) + 1, Len(whole))

\* C12: when a save prunes the backups, the files deleted are the oldest ones:
\* what remains is the most recent backups, the one just created among them.
\* (A step that leaves the directory as it was made no backup.)
C12_PrunedAreOldest ==
    [][\A p \in DOMAIN pc :
          /\ TweetBackupStep(p) =>
                IsSuffix(backups', Append(backups, BackupOf(files[TweetMainFile])))
          /\ DataBackupStep(p) =>
                IsSuffix(backups', Append(backups, BackupOf(files[TweetMainFile])))]_vars

\* A step of one of the fs.writeFile calls on the story files
WriteStep(p) ==
    /\ pc[p] \in {"initwrite", "save_write", "digest_write", "dm_write"}
    /\ pc'[p] # pc[p]

\* C13: a write of the state that fails or is interrupted part-way never leaves
\* the file unreadable or partially written: when the file is not the new state
\* in full, it is the previous state, unchanged.
C13_WriteIsAtomic ==
    [][\A p \in DOMAIN pc : \A path \in Paths :
          (WriteStep(p) /\ Readable(files[path]))
             => Readable(files'[path])]_vars

\* generateTechEvolution has an epoch to store in this run: there is none yet,
\* or the next one is due
EpochToStore ==
    /\ runPc = "tech"
    /\ techFile = NoTech \/ ShouldUpdateTech(ongoingTweets, latestTweetAge, techFile)

\* C14: a failed write of persisted data fails the tick and is never silently
\* ignored: a run whose write of the technology epoch left tech_evolution.json
\* as it was does not go on as if the epoch had been saved.
C14_FailedWriteFailsTheRun ==
    [][(EpochToStore /\ runPc' # "tech" /\ techFile' = techFile)
          => runPc' # "tweet"]_vars

\* C15: the age never decreases with the number of posts, and every age the
\* program computes, in TweetGenerator and in DigestGenerator, is
\* min(startAge + t / tweetsPerYear, endAge) to two decimals and so is never
\* above endAge.
C15_AgeMonotoneAndCapped ==
    call.fn \in {"TweetGenerator._calculateAge", "DigestGenerator._calculateAge"}
       => /\ call.res[1] <= call.res[2]
          /\ \A i \in 1..2 :
                /\ call.res[i] = Min(Round2(call.arg[i]), endAge * 100)
                /\ call.res[i] <= endAge * 100

\* C16: the persisted currentPhase is the bracket of the persisted currentAge:
\* whenever a save changes metadata.currentAge, metadata.currentPhase is
\* phase(currentAge) for the new age.
C16_PhaseOfPersistedAge ==
    call.fn \in {"TweetGenerator._saveTweets", "DigestGenerator._saveDigest"}
       => call.res[2] = GetPhase(call.res[1])

\* The five phases
Phases == {"early_career", "growth_phase", "peak_phase", "mature_phase", "wisdom_phase"}

\* C17: the phase is defined for every age from startAge to endAge and is one
\* of five: early_career below 32, growth_phase below 42, peak_phase below 52,
\* mature_phase below 62, wisdom_phase otherwise; 48 posts give age 23.0 in
\* early_career and 480 posts give age 32.0 in growth_phase.
C17_PhaseBrackets ==
    /\ call.fn = "_getCurrentPhase" =>
          \A i \in 1..3 :
             /\ call.res[i] \in Phases
             /\ call.res[i] = "early_career" <=> call.arg[1] < 3200
             /\ call.res[i] = "growth_phase" <=> (3200 <= call.arg[1] /\ call.arg[1] < 4200)
             /\ call.res[i] = "peak_phase" <=> (4200 <= call.arg[1] /\ call.arg[1] < 5200)
             /\ call.res[i] = "mature_phase" <=> (5200 <= call.arg[1] /\ call.arg[1] < 6200)
             /\ call.res[i] = "wisdom_phase" <=> 6200 <= call.arg[1]
    /\ (call.fn = "_calculateAge, _getCurrentPhase" /\ call.arg[2] >= 32) =>
          /\ call.arg[1] = 48 => call.res = <<2300, "early_career">>
          /\ call.arg[1] = 480 => call.res = <<3200, "growth_phase">>

\* The life events that are due at an age
DueTypes(age) == {LifeEvents[i].type : i \in {j \in 1..Len(LifeEvents) : age >= LifeEvents[j].age}}

\* The types of the plot points of a collection
TypesOf(points) == {points[i] : i \in 1..Len(points)}

\* C18: after any sequence of saves the stored key plot points hold at most one
\* entry of each type, and recording life events whose types are all present
\* already leaves the collection as it was; what was stored stays, in order.
C18_OnePlotPointPerType ==
    call.fn = "_checkAndRecordLifeEvents" =>
       /\ \A i, j \in 1..Len(call.res) : call.res[i] = call.res[j] => i = j
       /\ Len(call.arg[1]) <= Len(call.res)
       /\ SubSeq(call.res, 1, Len(call.arg[1])) = call.arg[1]
       /\ DueTypes(call.arg[2]) \subseteq TypesOf(call.arg[1]) => call.res = call.arg[1]
       /\ TypesOf(call.res) = TypesOf(call.arg[1]) \cup DueTypes(call.arg[2])

\* C18 witness: a save at an age at which the relationship and the marriage are
\* due found both recorded and left the collection unchanged
C18_Witness ==
    /\ call.fn = "_checkAndRecordLifeEvents"
    /\ call.arg[1] = <<"relationship", "marriage">>
    /\ call.arg[2] >= 3200
    /\ call.arg[2] < 3400
    /\ call.res = <<"relationship", "marriage">>

\* The epochs tech_evolution.json holds: the file is one epoch object
TechEpochs == IF techFile = NoTech THEN <<>> ELSE <<techFile>>

\* The digests a story file holds
DigestsOf(f) == IF Readable(f) THEN f.digests ELSE <<>>

\* whole begins with the entries of list, in their order
IsPrefix(list, whole) ==
    /\ Len(list) <= Len(whole)
    /\ list = SubSeq(whole, 1, Len(list))

\* C19: the persisted digests and technology epochs are append-only: an entry
\* that is stored is in every later persisted state, unchanged and at the same
\* position.
C19_AppendOnly ==
    [][/\ IsPrefix(TechEpochs, TechEpochs')
       /\ \A path \in Paths : IsPrefix(DigestsOf(files[path]), DigestsOf(files'[path]))]_vars

\* C20: one tick appends at most one digest to the persisted state: the digests
\* of a story file grow only by the write of _saveDigest, by one entry, and
\* that write is the last step of its tick.
C20_OneDigestPerTick ==
    [][\A path \in Paths :
          (/\ Readable(files[path])
           /\ Readable(files'[path])
           /\ Len(files'[path].digests) > Len(files[path].digests))
          => /\ Len(files'[path].digests) = Len(files[path].digests) + 1
             /\ \E p \in DOMAIN pc : pc[p] = "digest_write" /\ ~InTick(p)']_vars

\* C20 witness: a tick has ended with its scene generated and the digest
\* generator's story file holds the digest it appended after the first one
C20_Witness ==
    \E p \in DOMAIN pc :
        /\ BetweenTicks(p)
        /\ loc[p].outcome = "generated"
        /\ Readable(files[DigestMainFile])
        /\ Len(files[DigestMainFile].digests) >= 2
        /\ files[DigestMainFile].digests[Len(files[DigestMainFile].digests)].age > startAge * 100

\* A step of _saveDigest that wrote its digest to the story file
DigestSavedStep(p) ==
    /\ pc[p] = "digest_write"
    /\ pc'[p] # "digest_write"
    /\ loc'[p].outcome = "generated"

C22_CompletedIsSuccess ==
    \A p \in DOMAIN pc :
        (pc[p] = "idle" /\ loc[p].outcome = "completed") => loc[p].exitCode = 0

\* C23: when the request to the text generator fails, the completion does not
\* raise: it returns the posts of the local simulation, and the digest request
\* returns a digest, so the tick has posts and a digest to save.
C23_FailedRequestFallsBack ==
    /\ (call.fn = "_getAICompletion" /\ (call.arg.rejects \/ ~call.arg.client)) =>
          /\ ~call.res.raised
          /\ call.res.tweets = localSimulationTweets
          /\ call.res.tweets > 0
    /\ (call.fn = "_generateAIDigest" /\ (call.arg.rejects \/ ~call.arg.client)) =>
          call.res \in {"ai", "local"}

\* C23 witness: a request that was rejected returned the local simulation
C23_Witness ==
    /\ call.fn = "_getAICompletion"
    /\ call.arg.client
    /\ call.arg.rejects
    /\ call.res = [raised |-> FALSE, tweets |-> localSimulationTweets]


\* The outcomes of a tick that failed with an error
ThrewOutcomes == {"threw_load", "threw_generate", "threw_save", "threw_digest"}

\* A tick of p fails in this step
FailedTick(p) ==
    /\ InTick(p)
    /\ pc'[p] # pc[p]
    /\ loc'[p].outcome \in ThrewOutcomes

\* C24: in continuous mode a tick that fails with an error leaves the running
\* flag set and the loop waiting, and after the wait the next tick is attempted.
C24_FailedTickResumes ==
    /\ [][\A p \in DOMAIN pc :
            (FailedTick(p) /\ loc[p].continuous) =>
               /\ loc'[p].isRunning
               /\ loc'[p].continuous
               /\ pc'[p] = "wait"]_vars
    /\ (pc[1] = "wait" /\ loc[1].outcome \in ThrewOutcomes) ~> (pc[1] = "summary")

C24_Witness ==
    /\ pc[1] = "summary"
    /\ loc[1].continuous
    /\ loc[1].isRunning
    /\ loc[1].outcome \in ThrewOutcomes


\* The ranking of the replies has been run on a post with replies
Ranked == call.fn = "_analyzeRepliesForStoryAdjustment" /\ call.arg.replies # <<>>

\* The analyses of the replies of the call, in arrival order
Analyzed == [i \in 1..Len(call.arg.replies) |-> AnalyzeReply(call.arg.replies[i], i)]

\* The places in arrival order of the replies returned
Selected == {call.res.suggestions[i].arrival : i \in 1..Len(call.res.suggestions)}

\* C25: the ranking returns min(n, 3) of the n analyzed replies, in
\* non-increasing order of relevanceScore with equal scores in arrival order, and
\* no reply left out has a higher score than one returned.
C25_TopThreeInOrder ==
    Ranked =>
       LET n == Len(call.arg.replies)
           s == call.res.suggestions
       IN /\ ~call.res.null
          /\ Len(s) = Min(n, 3)
          /\ \A i \in 1..Len(s) : s[i].arrival \in 1..n /\ s[i] = Analyzed[s[i].arrival]
          /\ \A i, j \in 1..Len(s) :
                i < j => \/ s[i].relevanceScore > s[j].relevanceScore
                         \/ /\ s[i].relevanceScore = s[j].relevanceScore
                            /\ s[i].arrival < s[j].arrival
          /\ \A k \in (1..n) \ Selected : \A i \in 1..Len(s) :
                Analyzed[k].relevanceScore <= s[i].relevanceScore

C25_Witness ==
    /\ Ranked
    /\ Len(call.arg.replies) > 3
    /\ Len(call.res.suggestions) = 3
    /\ call.res.suggestions[2].relevanceScore = call.res.suggestions[3].relevanceScore
    /\ \E k \in (1..Len(call.arg.replies)) \ Selected :
          Analyzed[k].relevanceScore = call.res.suggestions[3].relevanceScore

\* The score the analysis of a reply is to get
ExpectedScore(a) ==
    LET impactWeight == [high |-> 3, medium |-> 2, low |-> 1]
        typeBonus == 2 * Cardinality(a.type \cap {"TECH", "CAREER", "LIFE_EVENT", "RELATIONSHIP"})
        length == ContentLength(a.content)
        lengthBonus == IF length > 50 THEN 2 ELSE IF length > 20 THEN 1 ELSE 0
    IN impactWeight[a.impact] + typeBonus + Min(Cardinality(a.keywords), 3)
         + lengthBonus + (IF a.mood # "neutral" THEN 1 ELSE 0)

\* C26: the relevanceScore of every analyzed reply is its impact weight (high 3,
\* medium 2, low 1), plus 2 for each of the four types matched, plus the number
\* of keywords up to 3, plus the length bonus (2 over 50 characters, 1 over 20),
\* plus 1 when the mood is not neutral.
C26_ScoreFormula ==
    /\ call.fn = "_calculateRelevanceScore" =>
          call.res.relevanceScore = ExpectedScore(call.res)
    /\ Ranked =>
          \A i \in 1..Len(call.res.suggestions) :
             call.res.suggestions[i].relevanceScore = ExpectedScore(call.res.suggestions[i])

C26_Witness ==
    /\ call.fn = "_calculateRelevanceScore"
    /\ Cardinality(call.res.keywords) > 3
    /\ "TECH" \in call.res.type
    /\ ContentLength(call.res.content) > 50
    /\ call.res.relevanceScore = 9

\* C27: of two replies ranked together, one of high impact with the technical
\* type among its types comes before one of low impact with no type matched.
C27_HighTechnicalFirst ==
    Ranked =>
       \A i, j \in 1..Len(call.arg.replies) :
          ( /\ Analyzed[i].impact = "high" /\ "TECH" \in Analyzed[i].type
            /\ Analyzed[j].impact = "low" /\ Analyzed[j].type = {"GENERAL"}
            /\ j \in Selected )
          => \E a, b \in 1..Len(call.res.suggestions) :
                /\ a < b
                /\ call.res.suggestions[a].arrival = i
                /\ call.res.suggestions[b].arrival = j

C30_YearProgress ==
    call.fn = "_calculateYearProgress" =>
       LET t == call.arg IN
       /\ call.res.year = t \div tweetsPerYear
       /\ call.res.progress * tweetsPerYear = (t % tweetsPerYear) * 1000
       /\ 0 <= call.res.progress /\ call.res.progress < 1000
       /\ call.res.year * tweetsPerYear + (t % tweetsPerYear) = t


\* The invocations of start() that are in a runOnce
InRunOnce == {s \in Starts : sim.loop[s] = "runOnce"}

\* C31: on one XavierSimulation, however start() and stop() interleave with the
\* awaits of the loop, at most one loop is in runOnce at a time.
C31_OneLoopAtATime == Cardinality(InRunOnce) <= 1

\* C35: once isRunning is cleared, a loop begins no runOnce unless start() sets
\* the flag again, and its start() returns after the iteration under way.
C35_StopEndsTheLoop ==
    /\ [][\A s \in Starts :
            (sim'.loop[s] = "runOnce" /\ sim.loop[s] # "runOnce") =>
               (sim.isRunning \/ sim.loop[s] = "none")]_vars
    /\ \A s \in Starts :
          (~sim.isRunning /\ sim.loop[s] \in {"runOnce", "wait"})
             ~> (sim.loop[s] = "returned" \/ sim.isRunning)

C35_Witness ==
    /\ ~sim.isRunning
    /\ sim.loop[1] = "returned"
    /\ sim.ticks[1] = 1
    /\ \A s \in Starts : s > 1 => sim.loop[s] = "none"


\* _saveTweets of p begins on a story file it can read, with the age of the
\* sent-posts count at or above endAge
SaveAtEndAge(p) ==
    /\ pc[p] = "save_read"
    /\ pc'[p] # "save_read"
    /\ Readable(files[TweetMainFile])
    /\ CalculateAge(sentTotal) >= endAge * 100

\* C36: when the age computed from the sent-posts count is at or above endAge,
\* _saveTweets returns an empty list of posts, with no write of the story file
\* and no backup.
C36_NothingSavedAtEndAge ==
    [][\A p \in DOMAIN pc :
          SaveAtEndAge(p) =>
             /\ pc'[p] = "digest"
             /\ loc'[p].saved = 0
             /\ files' = files
             /\ backups' = backups]_vars

C36_Witness ==
    \E p \in DOMAIN pc :
       /\ pc[p] = "digest"
       /\ loc[p].gen > 0
       /\ loc[p].saved = 0
       /\ CalculateAge(sentTotal) >= endAge * 100
       /\ Readable(files[TweetMainFile])
       /\ files[TweetMainFile].tweets = loc[p].sumTotal


\* _saveTweets of p writes the story with posts appended
PostsAppended(p) ==
    /\ pc[p] = "save_write"
    /\ pc'[p] = "backup"
    /\ Readable(files[TweetMainFile])
    /\ Readable(files'[TweetMainFile])
    /\ files'[TweetMainFile].tweets > files[TweetMainFile].tweets

\* C32: when every tick generates and persists and appends a post or more, the
\* continuous simulation gets to the completed state and the loop stops: every
\* such tick brings the persisted age nearer to endAge, which is a finite
\* number of ticks away.
C32_EveryTickAdvancesTheAge ==
    [][\A p \in DOMAIN pc :
          PostsAppended(p) =>
             files'[TweetMainFile].currentAge > files[TweetMainFile].currentAge]_vars


\* C33: after a runOnce that skipped generation for want of room for a batch
\* before the next multiple of maxTweetsPerDay, a later runOnce generates posts.
C33_SkippingEnds ==
    (call.fn = "runOnce" /\ call.res = "skipped")
       ~> (call.fn = "runOnce" /\ call.res = "generated")

\* A tick generates posts in this step
TickGenerates ==
    /\ call.fn = "runOnce"
    /\ call'.fn = "runOnce"
    /\ call'.arg.totalTweets > call.arg.totalTweets

\* C34: runOnce generates no posts once the posts generated in the current day
\* have reached maxTweetsPerDay: _checkDailyLimit is false then.
C34_DailyLimitHolds ==
    [][/\ TickGenerates => call.arg.today < maxTweetsPerDay
       /\ (call.fn = "runOnce" /\ call.arg.today >= maxTweetsPerDay)
             => ~CheckDailyLimit(call.arg.totalTweets)]_vars


----------------------------------------------------------------------------
\* Personal status: _saveTweets applies _updatePersonalStatus to the story it read
\* and writes it back. `call.arg` is the story file's personal part and key plot
\* points, `call.res` the age of the last save.

\* The posts counts of sent_tweets.json the saves are made at: one scene before the
\* years the updates test, and the start
StatusYears == {27, 28, 30, 32, 34, 35}
PersonalSent == {0} \cup {(y - startAge) * tweetsPerYear - tweetsPerScene : y \in StatusYears}
PersonalSizes == {1, tweetsPerScene}

\* INITIAL_DATA with the romantic, family_life and lifestyle sections
InitialPersonal ==
    [romantic |-> [status |-> "single", milestones |-> <<>>],
     family_life |-> [status |-> "single", isMarried |-> FALSE, hasChildren |-> FALSE,
                      count |-> 0, milestones |-> <<>>],
     workLifeBalance |-> "work_first",
     interests |-> {"programming"}, traits |-> {"tech_driven"},
     keyPlotPoints |-> <<>>]

\* The relationship step that tests the age alone
RecordEveryTime(storyData, currentAge) ==
    IF currentAge >= 2700
    THEN [storyData EXCEPT !.romantic.status = "in_relationship",
                           !.romantic.milestones =
                               Append(@, [event |-> "started_relationship", age |-> currentAge])]
    ELSE storyData

\* _updatePersonalStatus, the relationship step
StartRelationship(storyData, currentAge) ==
    IF currentAge >= 2700 /\ storyData.romantic.status = "single"
    THEN [storyData EXCEPT !.romantic.status = "in_relationship",
                           !.romantic.milestones =
                               Append(@, [event |-> "started_relationship", age |-> currentAge])]
    ELSE storyData

\* _updatePersonalStatus, the marriage step
Marry(storyData, currentAge) ==
    IF currentAge >= 3200 /\ ~storyData.family_life.isMarried
    THEN [storyData EXCEPT !.family_life.isMarried = TRUE,
                           !.family_life.status = "married",
                           !.romantic.status = "married"]
    ELSE storyData

\* _updatePersonalStatus, the children step
FirstChild(storyData, currentAge) ==
    IF currentAge >= 3400 /\ ~storyData.family_life.hasChildren
    THEN [storyData EXCEPT !.family_life.hasChildren = TRUE,
                           !.family_life.count = 1,
                           !.family_life.milestones =
                               Append(@, [event |-> "first_child", age |-> currentAge])]
    ELSE storyData

\* _updatePersonalStatus, the lifestyle steps and the life events
Lifestyle(storyData, currentAge) ==
    [storyData EXCEPT
       !.workLifeBalance = IF currentAge >= 3500 THEN "family_first"
                           ELSE IF currentAge >= 3000 THEN "balancing" ELSE @,
       !.interests = IF currentAge >= 2800 THEN @ \cup {"parenting"} ELSE @,
       !.traits = IF currentAge >= 3000 THEN @ \cup {"mature"} ELSE @,
       !.keyPlotPoints = CheckAndRecordLifeEvents(@, currentAge)]

\* TweetGenerator._updatePersonalStatus
UpdatePersonalStatus(storyData, currentAge) ==
    Lifestyle(FirstChild(Marry(StartRelationship(storyData, currentAge), currentAge),
                         currentAge), currentAge)

\* initializeDataStructure has written INITIAL_DATA
PersonalStart ==
    /\ call = NoCall
    /\ call' = [fn |-> "_saveTweets", arg |-> InitialPersonal, res |-> startAge * 100]

\* _saveTweets: the age of the sent posts and the scene, capped at the end age, and
\* the personal status updated for it
SavePersonal(sentTotals, sizes) ==
    /\ call.fn = "_saveTweets"
    /\ \E sentTotalTweets \in sentTotals, n \in sizes :
         LET safeAge == Min(CalculateAgeTo(sentTotalTweets + n, lastPhaseEnd),
                            lastPhaseEnd * 100)
         IN /\ CalculateAgeTo(sentTotalTweets, lastPhaseEnd) < lastPhaseEnd * 100
            /\ call' = [call EXCEPT !.arg = UpdatePersonalStatus(call.arg, safeAge),
                                    !.res = safeAge]

NextPersonal ==
    \/ PersonalStart /\ UNCHANGED <<storyVars, techVars, simVars>>
    \/ SavePersonal(PersonalSent, PersonalSizes) /\ UNCHANGED <<storyVars, techVars, simVars>>

SpecPersonal == InitTech /\ [][NextPersonal]_vars

StatusRank(status) ==
    CASE status = "single" -> 0
      [] status = "in_relationship" -> 1
      [] status = "married" -> 2
      [] OTHER -> 0 - 1

EventCount(milestones, event) ==
    Cardinality({i \in DOMAIN milestones : milestones[i].event = event})

C38_DigestCountIsLength ==
    (Readable(files[TweetMainFile]) /\ files[TweetMainFile].hasStats)
        => files[TweetMainFile].digestCount = Len(files[TweetMainFile].digests)


\* generateTechEvolution generates the epoch after the stored one in this step
\* (the step leaves for the post only when the answer has parsed)
NextEpochGenerated ==
    /\ EpochToStore
    /\ techFile # NoTech
    /\ runPc' = "tweet"

\* C39: once a run has generated and stored the epoch after the stored one, no
\* further epoch is due before the latest post's age has advanced by epochYears:
\* with any advance short of that, _shouldUpdateTech is false on the stored epoch.
C39_OneEpochPerBoundary ==
    [][NextEpochGenerated
         => ~ShouldUpdateTech(ongoingTweets', latestTweetAge' + PostsPerEpoch - 1, techFile')]_vars

====
